---- MODULE Spec2Model ----
(***************************************************************************)
(* Model of the analytical core of commodities_quant:                      *)
(*   src/strategy.py        signal state machines (Beta, Arbitrage, Event) *)
(*   src/backtest_engine.py VectorBacktester.prepare_data / run            *)
(*   src/factors.py         rolling_percentile, get_metric_series,         *)
(*                          get_slv_vs_comex_squeeze                       *)
(*                                                                         *)
(* Floats are modelled in fixed point: a float x is the integer x * Scale. *)
(* numpy.nan is the distinguished value NaN, tested only with IsNa.        *)
(***************************************************************************)
EXTENDS Integers, Sequences, FiniteSets, TLC

\* ---------------------------------------------------------------- numbers
Scale == 1000

NaN == -999999

IsNa(x) == x = NaN

\* Optional[str] = None of BacktestConfig.start_date / end_date
None == 0

\* float infinity: the pct_change of a positive value after a zero, a
\* quotient by zero
Inf == 999999

\* ---------------------------------------------------------------- Signal
SHORT == -1

FLAT == 0

LONG == 1

\* ---------------------------------------------------------------- bounds
\* longest frame a scan reads (the scenario frame of six rows apart)
MaxRows == 3

\* ------------------------------------------------------- strategy params
BetaStrategyParams ==
    [long_entry |-> 50, long_exit |-> 300, short_entry |-> 950, short_exit |-> 700]

ArbitrageStrategyParams ==
    [spread_long_entry |-> -200, spread_long_exit |-> 0,
     spread_short_entry |-> 200, spread_short_exit |-> 0]

EventStrategyParams ==
    [divergence_long_entry |-> 1500, divergence_long_exit |-> 500,
     slv_change_threshold |-> 20, comex_change_threshold |-> -20]

\* parameter objects a caller may construct (no ordering is validated)
BetaParamChoices ==
    { BetaStrategyParams,
      [long_entry |-> 300, long_exit |-> 50, short_entry |-> 950, short_exit |-> 700],
      [long_entry |-> 50, long_exit |-> 700, short_entry |-> 950, short_exit |-> 700] }

ArbitrageParamChoices ==
    { ArbitrageStrategyParams,
      [spread_long_entry |-> -200, spread_long_exit |-> -100,
       spread_short_entry |-> 200, spread_short_exit |-> 100] }

EventParamChoices == { EventStrategyParams }

ParamChoices(k) ==
    CASE k = "Beta" -> BetaParamChoices
      [] k = "Arbitrage" -> ArbitrageParamChoices
      [] k = "Event" -> EventParamChoices

\* ------------------------------------------------------------ scan inputs
\* percentile column of the frame the Beta scan reads
BetaScores == {NaN, 30, 50, 100, 200, 300, 400, 700, 720, 950, 960}

\* (comex_pct, lme_pct) columns of the frame the Arbitrage scan reads
ArbitrageRows ==
    { [comex_pct |-> c, lme_pct |-> 500] : c \in {NaN, 200, 300, 400, 500, 600, 700, 800} }
    \cup { [comex_pct |-> 500, lme_pct |-> NaN] }

\* (divergence, slv_change, comex_change) of the frame the Event scan reads
EventRows ==
    { [divergence |-> d, slv_change |-> a[1], comex_change |-> a[2]] :
        d \in {NaN, 400, 500, 1000, 1500, 1600},
        a \in { <<30, -30>>, <<20, -30>>, <<30, -20>>, <<NaN, -30>>, <<0, 0>> } }

\* score sequence of the hysteresis scenario
ScenarioScores == <<30, 200, 400, 960, 720, 100>>

VARIABLES
    kind,            \* which strategy class the object is
    params,          \* self.params
    pc,              \* position of generate_signals: "idle", "scan", "done"
    position,        \* local variable position of generate_signals
    signals,         \* local list signals of generate_signals
    data,            \* rows of the input frame consumed so far
    self_position,   \* self._position
    self_signals,    \* self._signals
    config,          \* VectorBacktester.config
    price_series,    \* what get_price_series_from_db returned to prepare_data
    signals_df,      \* argument signals_df of VectorBacktester.run
    results,         \* VectorBacktester.results
    is_run,          \* VectorBacktester._is_run
    raised,          \* exception the last call raised, "" if none
    metrics,         \* VectorBacktester.metrics
    comex_trend,     \* calculate_source_percentile_trend(metal, 'COMEX')
    lme_trend,       \* calculate_source_percentile_trend(metal, 'LME')
    pct_data,        \* local pct_data of ArbitrageStrategy.generate_signals
    series,          \* argument series of rolling_percentile
    window,          \* argument window of rolling_percentile
    pct_out,         \* what rolling_percentile returned
    returned,        \* whether rolling_percentile has returned
    worlds,          \* database contents of two runs of run_strategy(EventStrategy())
    records,         \* what run_strategy returned or raised in each of the runs
    phase,           \* "load", "perturbed", "ran": progress of the two runs
    metal,           \* argument metal of prepare_inventory_data
    observations,    \* rows of clean.observations of each source of the metal
    inventory_data,  \* what prepare_inventory_data returned
    global_result,   \* what calculate_global_percentile returned
    prepared,        \* "db", "prepared", "global": which call has returned
    drawdown,        \* column drawdown handed to _calc_max_drawdown_duration
    duration,        \* what _calc_max_drawdown_duration returned
    measured,        \* whether _calc_max_drawdown_duration has returned
    trade_df,        \* record handed to _calc_trade_stats
    trade_stats,     \* what _calc_trade_stats returned
    stats_done,      \* whether _calc_trade_stats has returned
    query_rows,      \* rows pd.read_sql returned to a series loader
    loaded,          \* series the loader returned
    load_state,      \* "idle", "returned" or the exception the loader raised
    prior,           \* results, metrics and _is_run as they were before the last run
    calls            \* input frame and returned signals of the last generate_signals calls

scanVars == <<kind, params, pc, position, signals, data, self_position, self_signals>>

backtestVars == <<config, price_series, signals_df, results, is_run, raised, metrics>>

joinVars == <<comex_trend, lme_trend, pct_data>>

rollVars == <<series, window, pct_out, returned>>

pairVars == <<worlds, records, phase>>

prepVars == <<metal, observations, inventory_data, global_result, prepared>>

durationVars == <<drawdown, duration, measured>>

tradeVars == <<trade_df, trade_stats, stats_done>>

loadVars == <<query_rows, loaded, load_state>>

sessionVars == <<prior>>

callVars == <<calls>>

vars == <<scanVars, backtestVars, joinVars, rollVars, pairVars, prepVars, durationVars,
          tradeVars, loadVars, sessionVars, callVars>>

\* a strategy object nothing has been called on
ScanIdle ==
    /\ kind = "Beta"
    /\ params = BetaStrategyParams
    /\ pc = "idle"
    /\ position = FLAT
    /\ signals = <<>>
    /\ data = <<>>
    /\ self_position = FLAT
    /\ self_signals = <<>>

\* returns, costs, equity and drawdown are fixed point in units of 1/RetScale
RetScale == 10000

\* BacktestConfig(): commission 0.001, slippage 0.0005, risk-free rate 0.02,
\* 252 trading days a year, no date range
BacktestConfig ==
    [start_date |-> None, end_date |-> None, commission_rate |-> 10, slippage_rate |-> 5,
     risk_free_rate |-> 200, trading_days_per_year |-> 252]

\* PerformanceMetrics(): the fields as constructed
PerformanceMetrics ==
    [total_return |-> 0, cagr |-> 0, volatility |-> 0, max_drawdown |-> 0,
     max_drawdown_duration |-> 0, sharpe_ratio |-> 0, sortino_ratio |-> 0,
     calmar_ratio |-> 0, total_trades |-> 0, win_rate |-> 0, profit_factor |-> 0,
     avg_trade_return |-> 0, benchmark_return |-> 0, alpha |-> 0, beta |-> 0]

\* a backtester nothing has been run on
BacktestIdle ==
    /\ config = BacktestConfig
    /\ price_series = <<>>
    /\ signals_df = <<>>
    /\ results = <<>>
    /\ is_run = FALSE
    /\ raised = ""
    /\ metrics = PerformanceMetrics

\* no source percentile has been fetched
JoinIdle ==
    /\ comex_trend = <<>>
    /\ lme_trend = <<>>
    /\ pct_data = <<>>

\* rolling_percentile has not been called
RollIdle ==
    /\ series = <<>>
    /\ window = 2
    /\ pct_out = <<>>
    /\ returned = FALSE

\* no pair of runs is set up
PairIdle ==
    /\ worlds = <<>>
    /\ records = <<>>
    /\ phase = "load"

\* prepare_inventory_data has not been called
PrepIdle ==
    /\ metal = "GOLD"
    /\ observations = <<>>
    /\ inventory_data = <<>>
    /\ global_result = <<>>
    /\ prepared = "db"

\* _calc_max_drawdown_duration has not been called
DurationIdle ==
    /\ drawdown = <<>>
    /\ duration = 0
    /\ measured = FALSE

\* _calc_trade_stats not called
TradeIdle ==
    /\ trade_df = <<>>
    /\ trade_stats = [win_rate |-> 0, profit_factor |-> 0, avg_trade_return |-> 0]
    /\ stats_done = FALSE

\* no series loader called
LoadIdle ==
    /\ query_rows = <<>>
    /\ loaded = <<>>
    /\ load_state = "idle"

\* no run of a backtester observed
SessionIdle == prior = [results |-> <<>>, metrics |-> PerformanceMetrics, is_run |-> FALSE]

\* no generate_signals call observed
CallIdle == calls = <<>>

\* ------------------------------------------------------------- Beta scan
\* a LONG whose score is above both long_exit and short_entry first goes FLAT
BetaTransition_flatfirst(pos, pct, p) ==
    IF IsNa(pct) THEN [position |-> pos, reason |-> "missing"]
    ELSE IF pos = FLAT THEN
        IF pct < p.long_entry THEN [position |-> LONG, reason |-> "long_entry"]
        ELSE IF pct > p.short_entry THEN [position |-> SHORT, reason |-> "short_entry"]
        ELSE [position |-> FLAT, reason |-> "watch"]
    ELSE IF pos = LONG THEN
        IF pct > p.long_exit THEN [position |-> FLAT, reason |-> "exit_long"]
        ELSE [position |-> LONG, reason |-> "hold_long"]
    ELSE IF pos = SHORT THEN
        IF pct < p.short_exit THEN [position |-> FLAT, reason |-> "exit_short"]
        ELSE [position |-> SHORT, reason |-> "hold_short"]
    ELSE [position |-> pos, reason |-> ""]

\* entries fire at equality with the entry threshold
BetaTransition_inclusive(pos, pct, p) ==
    IF IsNa(pct) THEN [position |-> pos, reason |-> "missing"]
    ELSE IF pos = FLAT THEN
        IF pct <= p.long_entry THEN [position |-> LONG, reason |-> "long_entry"]
        ELSE IF pct >= p.short_entry THEN [position |-> SHORT, reason |-> "short_entry"]
        ELSE [position |-> FLAT, reason |-> "watch"]
    ELSE IF pos = LONG THEN
        IF pct > p.long_exit THEN
            IF pct > p.short_entry THEN [position |-> SHORT, reason |-> "long_to_short"]
            ELSE [position |-> FLAT, reason |-> "exit_long"]
        ELSE [position |-> LONG, reason |-> "hold_long"]
    ELSE IF pos = SHORT THEN
        IF pct < p.short_exit THEN
            IF pct < p.long_entry THEN [position |-> LONG, reason |-> "short_to_long"]
            ELSE [position |-> FLAT, reason |-> "exit_short"]
        ELSE [position |-> SHORT, reason |-> "hold_short"]
    ELSE [position |-> pos, reason |-> ""]

\* a LONG exits one zone late: reversal is tested before the exit
BetaTransition_holdlong(pos, pct, p) ==
    IF IsNa(pct) THEN [position |-> pos, reason |-> "missing"]
    ELSE IF pos = FLAT THEN
        IF pct < p.long_entry THEN [position |-> LONG, reason |-> "long_entry"]
        ELSE IF pct > p.short_entry THEN [position |-> SHORT, reason |-> "short_entry"]
        ELSE [position |-> FLAT, reason |-> "watch"]
    ELSE IF pos = LONG THEN
        IF pct > p.short_entry THEN [position |-> SHORT, reason |-> "long_to_short"]
        ELSE [position |-> LONG, reason |-> "hold_long"]
    ELSE IF pos = SHORT THEN
        IF pct < p.long_entry THEN [position |-> LONG, reason |-> "short_to_long"]
        ELSE [position |-> SHORT, reason |-> "hold_short"]
    ELSE [position |-> pos, reason |-> ""]

\* a LONG is left only above the larger of long_entry and long_exit
BetaTransition_orderedexit(pos, pct, p) ==
    IF IsNa(pct) THEN [position |-> pos, reason |-> "missing"]
    ELSE IF pos = FLAT THEN
        IF pct < p.long_entry THEN [position |-> LONG, reason |-> "long_entry"]
        ELSE IF pct > p.short_entry THEN [position |-> SHORT, reason |-> "short_entry"]
        ELSE [position |-> FLAT, reason |-> "watch"]
    ELSE IF pos = LONG THEN
        IF pct > p.long_exit /\ pct > p.long_entry THEN
            IF pct > p.short_entry THEN [position |-> SHORT, reason |-> "long_to_short"]
            ELSE [position |-> FLAT, reason |-> "exit_long"]
        ELSE [position |-> LONG, reason |-> "hold_long"]
    ELSE IF pos = SHORT THEN
        IF pct < p.short_exit THEN
            IF pct < p.long_entry THEN [position |-> LONG, reason |-> "short_to_long"]
            ELSE [position |-> FLAT, reason |-> "exit_short"]
        ELSE [position |-> SHORT, reason |-> "hold_short"]
    ELSE [position |-> pos, reason |-> ""]

\* a SHORT is left below long_exit instead of short_exit
BetaTransition_shortexit(pos, pct, p) ==
    IF IsNa(pct) THEN [position |-> pos, reason |-> "missing"]
    ELSE IF pos = FLAT THEN
        IF pct < p.long_entry THEN [position |-> LONG, reason |-> "long_entry"]
        ELSE IF pct > p.short_entry THEN [position |-> SHORT, reason |-> "short_entry"]
        ELSE [position |-> FLAT, reason |-> "watch"]
    ELSE IF pos = LONG THEN
        IF pct > p.long_exit THEN
            IF pct > p.short_entry THEN [position |-> SHORT, reason |-> "long_to_short"]
            ELSE [position |-> FLAT, reason |-> "exit_long"]
        ELSE [position |-> LONG, reason |-> "hold_long"]
    ELSE IF pos = SHORT THEN
        IF pct < p.long_exit THEN
            IF pct < p.long_entry THEN [position |-> LONG, reason |-> "short_to_long"]
            ELSE [position |-> FLAT, reason |-> "exit_short"]
        ELSE [position |-> SHORT, reason |-> "hold_short"]
    ELSE [position |-> pos, reason |-> ""]

\* body of the loop of BetaStrategy.generate_signals for one row
BetaTransition(pos, pct, p) ==
    IF IsNa(pct) THEN [position |-> pos, reason |-> "missing"]
    ELSE IF pos = FLAT THEN
        IF pct < p.long_entry THEN [position |-> LONG, reason |-> "long_entry"]
        ELSE IF pct > p.short_entry THEN [position |-> SHORT, reason |-> "short_entry"]
        ELSE [position |-> FLAT, reason |-> "watch"]
    ELSE IF pos = LONG THEN
        IF pct > p.long_exit THEN
            IF pct > p.short_entry THEN [position |-> SHORT, reason |-> "long_to_short"]
            ELSE [position |-> FLAT, reason |-> "exit_long"]
        ELSE [position |-> LONG, reason |-> "hold_long"]
    ELSE IF pos = SHORT THEN
        IF pct < p.short_exit THEN
            IF pct < p.long_entry THEN [position |-> LONG, reason |-> "short_to_long"]
            ELSE [position |-> FLAT, reason |-> "exit_short"]
        ELSE [position |-> SHORT, reason |-> "hold_short"]
    ELSE [position |-> pos, reason |-> ""]

\* -------------------------------------------------------- Arbitrage scan
\* merged['spread'] = merged['comex_pct'] - merged['lme_pct']
Spread(comex_pct, lme_pct) ==
    IF IsNa(comex_pct) \/ IsNa(lme_pct) THEN NaN ELSE comex_pct - lme_pct

\* a row with a missing spread closes the position
ArbitrageTransition_flatonmissing(pos, spread, p) ==
    IF IsNa(spread) THEN [position |-> FLAT, reason |-> "missing"]
    ELSE IF pos = FLAT THEN
        IF spread < p.spread_long_entry THEN [position |-> LONG, reason |-> "long_entry"]
        ELSE IF spread > p.spread_short_entry THEN [position |-> SHORT, reason |-> "short_entry"]
        ELSE [position |-> FLAT, reason |-> "watch"]
    ELSE IF pos = LONG THEN
        IF spread >= p.spread_long_exit THEN
            IF spread > p.spread_short_entry THEN [position |-> SHORT, reason |-> "long_to_short"]
            ELSE [position |-> FLAT, reason |-> "converged"]
        ELSE [position |-> LONG, reason |-> "hold_long"]
    ELSE IF pos = SHORT THEN
        IF spread <= p.spread_short_exit THEN
            IF spread < p.spread_long_entry THEN [position |-> LONG, reason |-> "short_to_long"]
            ELSE [position |-> FLAT, reason |-> "converged"]
        ELSE [position |-> SHORT, reason |-> "hold_short"]
    ELSE [position |-> pos, reason |-> ""]

\* the SHORT exit needs the spread strictly beyond twice the exit level
ArbitrageTransition_lateexit(pos, spread, p) ==
    IF IsNa(spread) THEN [position |-> pos, reason |-> "missing"]
    ELSE IF pos = FLAT THEN
        IF spread < p.spread_long_entry THEN [position |-> LONG, reason |-> "long_entry"]
        ELSE IF spread > p.spread_short_entry THEN [position |-> SHORT, reason |-> "short_entry"]
        ELSE [position |-> FLAT, reason |-> "watch"]
    ELSE IF pos = LONG THEN
        IF spread >= p.spread_long_exit THEN
            IF spread > p.spread_short_entry THEN [position |-> SHORT, reason |-> "long_to_short"]
            ELSE [position |-> FLAT, reason |-> "converged"]
        ELSE [position |-> LONG, reason |-> "hold_long"]
    ELSE IF pos = SHORT THEN
        IF spread < p.spread_long_entry THEN [position |-> LONG, reason |-> "short_to_long"]
        ELSE [position |-> SHORT, reason |-> "hold_short"]
    ELSE [position |-> pos, reason |-> ""]

\* body of the loop of ArbitrageStrategy.generate_signals for one row
ArbitrageTransition(pos, spread, p) ==
    IF IsNa(spread) THEN [position |-> pos, reason |-> "missing"]
    ELSE IF pos = FLAT THEN
        IF spread < p.spread_long_entry THEN [position |-> LONG, reason |-> "long_entry"]
        ELSE IF spread > p.spread_short_entry THEN [position |-> SHORT, reason |-> "short_entry"]
        ELSE [position |-> FLAT, reason |-> "watch"]
    ELSE IF pos = LONG THEN
        IF spread >= p.spread_long_exit THEN
            IF spread > p.spread_short_entry THEN [position |-> SHORT, reason |-> "long_to_short"]
            ELSE [position |-> FLAT, reason |-> "converged"]
        ELSE [position |-> LONG, reason |-> "hold_long"]
    ELSE IF pos = SHORT THEN
        IF spread <= p.spread_short_exit THEN
            IF spread < p.spread_long_entry THEN [position |-> LONG, reason |-> "short_to_long"]
            ELSE [position |-> FLAT, reason |-> "converged"]
        ELSE [position |-> SHORT, reason |-> "hold_short"]
    ELSE [position |-> pos, reason |-> ""]

\* ------------------------------------------------------------ Event scan
\* auxiliary_condition of EventStrategy.generate_signals
AuxiliaryCondition(slv_change, comex_change, p) ==
    /\ ~IsNa(slv_change)
    /\ ~IsNa(comex_change)
    /\ slv_change > p.slv_change_threshold
    /\ comex_change < p.comex_change_threshold

\* the auxiliary condition is a second confirmation of the entry, and its
\* absence closes a LONG
EventTransition_confirm(pos, divergence, slv_change, comex_change, p) ==
    IF IsNa(divergence) THEN [position |-> pos, reason |-> "missing"]
    ELSE IF pos = FLAT THEN
        IF divergence > p.divergence_long_entry
           /\ AuxiliaryCondition(slv_change, comex_change, p)
        THEN [position |-> LONG, reason |-> "squeeze"]
        ELSE [position |-> FLAT, reason |-> "watch"]
    ELSE IF pos = LONG THEN
        IF divergence < p.divergence_long_exit
           \/ ~AuxiliaryCondition(slv_change, comex_change, p)
        THEN [position |-> FLAT, reason |-> "exit_long"]
        ELSE [position |-> LONG, reason |-> "hold_long"]
    ELSE [position |-> pos, reason |-> ""]

\* body of the loop of EventStrategy.generate_signals for one row
EventTransition(pos, divergence, slv_change, comex_change, p) ==
    IF IsNa(divergence) THEN [position |-> pos, reason |-> "missing"]
    ELSE IF pos = FLAT THEN
        IF divergence > p.divergence_long_entry
        THEN [position |-> LONG, reason |-> "squeeze"]
        ELSE IF AuxiliaryCondition(slv_change, comex_change, p)
        THEN [position |-> LONG, reason |-> "auxiliary"]
        ELSE [position |-> FLAT, reason |-> "watch"]
    ELSE IF pos = LONG THEN
        IF divergence < p.divergence_long_exit
        THEN [position |-> FLAT, reason |-> "exit_long"]
        ELSE [position |-> LONG, reason |-> "hold_long"]
    ELSE [position |-> pos, reason |-> ""]

\* ------------------------------------------------------ generate_signals
IsPrefix(s, t) == Len(s) <= Len(t) /\ \A i \in 1..Len(s) : s[i] = t[i]

\* the frames the model lets a scan read: every frame of at most MaxRows
\* rows, and the six-row scenario frame
MayRead(pct) ==
    \/ Len(data) < MaxRows
    \/ /\ params = BetaStrategyParams
       /\ IsPrefix([i \in 1..Len(data) + 1 |->
                      IF i <= Len(data) THEN data[i].percentile ELSE pct],
                   ScenarioScores)

InitScan ==
    /\ kind \in {"Beta", "Arbitrage", "Event"}
    /\ params \in ParamChoices(kind)
    /\ pc = "idle"
    /\ position = FLAT
    /\ signals = <<>>
    /\ data = <<>>
    /\ self_position = FLAT
    /\ self_signals = <<>>
    /\ BacktestIdle
    /\ JoinIdle
    /\ RollIdle
    /\ PairIdle
    /\ PrepIdle
    /\ DurationIdle
    /\ TradeIdle
    /\ LoadIdle
    /\ SessionIdle
    /\ CallIdle

\* the input frame is empty: self._signals is cleared and returned
GenerateEmpty ==
    /\ pc = "idle"
    /\ pc' = "done"
    /\ self_signals' = <<>>
    /\ UNCHANGED <<kind, params, position, signals, data, self_position, backtestVars, joinVars, rollVars, pairVars, prepVars, durationVars, tradeVars, loadVars, sessionVars, callVars>>

\* signals = []; position = Signal.FLAT
GenerateBegin ==
    /\ pc = "idle"
    /\ pc' = "scan"
    /\ signals' = <<>>
    /\ position' = FLAT
    /\ data' = <<>>
    /\ UNCHANGED <<kind, params, self_position, self_signals, backtestVars, joinVars, rollVars, pairVars, prepVars, durationVars, tradeVars, loadVars, sessionVars, callVars>>

BetaRow ==
    /\ pc = "scan"
    /\ kind = "Beta"
    /\ \E pct \in BetaScores :
         LET row == [date |-> Len(data) + 1, percentile |-> pct]
             t == BetaTransition(position, pct, params)
         IN /\ MayRead(pct)
            /\ data' = Append(data, row)
            /\ position' = t.position
            /\ signals' = Append(signals,
                 [date |-> row.date, percentile |-> pct,
                  signal |-> t.position, reason |-> t.reason])
    /\ UNCHANGED <<kind, params, pc, self_position, self_signals, backtestVars, joinVars, rollVars, pairVars, prepVars, durationVars, tradeVars, loadVars, sessionVars, callVars>>

\* one iteration of the loop of ArbitrageStrategy.generate_signals on row r
ArbitrageIteration(r) ==
    LET t == ArbitrageTransition(position, r.spread, params)
    IN /\ data' = Append(data, r)
       /\ position' = t.position
       /\ signals' = Append(signals,
             [date |-> r.date, comex_pct |-> r.comex_pct, lme_pct |-> r.lme_pct,
              spread |-> r.spread, signal |-> t.position, reason |-> t.reason])

ArbitrageRow ==
    /\ pc = "scan"
    /\ kind = "Arbitrage"
    /\ Len(data) < MaxRows
    /\ \E r \in ArbitrageRows :
         ArbitrageIteration([date |-> Len(data) + 1, comex_pct |-> r.comex_pct,
                             lme_pct |-> r.lme_pct,
                             spread |-> Spread(r.comex_pct, r.lme_pct)])
    /\ UNCHANGED <<kind, params, pc, self_position, self_signals, backtestVars, joinVars, rollVars, pairVars, prepVars, durationVars, tradeVars, loadVars, sessionVars, callVars>>

EventRow ==
    /\ pc = "scan"
    /\ kind = "Event"
    /\ Len(data) < MaxRows
    /\ \E r \in EventRows :
         LET row == [date |-> Len(data) + 1, divergence |-> r.divergence,
                     slv_change |-> r.slv_change, comex_change |-> r.comex_change]
             t == EventTransition(position, r.divergence, r.slv_change,
                                  r.comex_change, params)
         IN /\ data' = Append(data, row)
            /\ position' = t.position
            /\ signals' = Append(signals,
                 [date |-> row.date, divergence |-> r.divergence,
                  signal |-> t.position, reason |-> t.reason])
    /\ UNCHANGED <<kind, params, pc, self_position, self_signals, backtestVars, joinVars, rollVars, pairVars, prepVars, durationVars, tradeVars, loadVars, sessionVars, callVars>>

\* self._signals = pd.DataFrame(signals); self._position = position
GenerateEnd ==
    /\ pc = "scan"
    /\ Len(data) >= 1
    /\ pc' = "done"
    /\ self_signals' = signals
    /\ self_position' = position
    /\ UNCHANGED <<kind, params, position, signals, data, backtestVars, joinVars, rollVars, pairVars, prepVars, durationVars, tradeVars, loadVars, sessionVars, callVars>>

NextScan ==
    \/ GenerateEmpty
    \/ GenerateBegin
    \/ BetaRow
    \/ ArbitrageRow
    \/ EventRow
    \/ GenerateEnd

\* ------------------------------------------------- properties of the scans
\* state carried into row i of the scan
Before(i) == IF i = 1 THEN FLAT ELSE signals[i - 1].signal

SignalsOf(rows) == [i \in 1..Len(rows) |-> rows[i].signal]

\* one emitted row per input row, in order, and the carried state is the
\* signal of the last emitted row
RowForRow ==
    /\ Len(signals) = Len(data)
    /\ \A i \in 1..Len(signals) : signals[i].date = data[i].date
    /\ pc = "scan" => position = Before(Len(signals) + 1)

\* the transition table of the hysteresis scan as the specification words it
HysteresisTable(s, p, long_entry, long_exit, short_entry, short_exit) ==
    CASE s = FLAT ->
           (CASE p < long_entry -> LONG
              [] ~(p < long_entry) /\ p > short_entry -> SHORT
              [] OTHER -> FLAT)
      [] s = LONG ->
           (CASE p > long_exit /\ p > short_entry -> SHORT
              [] p > long_exit /\ ~(p > short_entry) -> FLAT
              [] OTHER -> LONG)
      [] s = SHORT ->
           (CASE p < short_exit /\ p < long_entry -> LONG
              [] p < short_exit /\ ~(p < long_entry) -> FLAT
              [] OTHER -> SHORT)

\* C3: the Beta scan is a left fold from FLAT whose step on every non-null
\* score is the hysteresis table, one signal row per score row, in order; a
\* LONG->SHORT or SHORT->LONG reversal takes a single row.
C3_BetaFoldIsTable ==
    kind = "Beta" =>
        /\ RowForRow
        /\ \A i \in 1..Len(signals) :
             /\ signals[i].percentile = data[i].percentile
             /\ ~IsNa(data[i].percentile) =>
                  signals[i].signal =
                      HysteresisTable(Before(i), data[i].percentile,
                                      params.long_entry, params.long_exit,
                                      params.short_entry, params.short_exit)

\* a finished Beta scan that reversed LONG -> SHORT on consecutive rows
C3_Witness ==
    /\ kind = "Beta"
    /\ pc = "done"
    /\ \E i \in 2..Len(self_signals) :
         /\ self_signals[i - 1].signal = LONG
         /\ self_signals[i].signal = SHORT

\* driving score of input row i, whatever the strategy
Score(i) ==
    CASE kind = "Beta" -> data[i].percentile
      [] kind = "Arbitrage" -> data[i].spread
      [] kind = "Event" -> data[i].divergence

\* C4: in all three scans a row whose driving score is null makes no
\* transition: it is emitted with the state before it and the missing-data
\* reason, and the state carried to the next row is that same state.
C4_NullRowKeepsState ==
    /\ RowForRow
    /\ \A i \in 1..Len(signals) :
         IsNa(Score(i)) =>
            /\ signals[i].signal = Before(i)
            /\ signals[i].reason = "missing"
            /\ i = Len(signals) /\ pc = "scan" => position = Before(i)

\* two consecutive null rows read while the scan holds a position
C4_Witness ==
    /\ kind = "Arbitrage"
    /\ Len(signals) >= 3
    /\ \E i \in 2..Len(signals) - 1 :
         /\ signals[i - 1].signal = SHORT
         /\ IsNa(Score(i))
         /\ IsNa(Score(i + 1))
         /\ signals[i + 1].signal = SHORT

ScoresOf(rows) == [i \in 1..Len(rows) |-> rows[i].percentile]

\* C5 as the specification states it: scenario B yields
\* [LONG, LONG, LONG, SHORT, SHORT, LONG].
C5_ScenarioAsStated ==
    (/\ kind = "Beta"
     /\ params = BetaStrategyParams
     /\ pc = "done"
     /\ ScoresOf(data) = ScenarioScores)
    => SignalsOf(self_signals) = <<LONG, LONG, LONG, SHORT, SHORT, LONG>>

\* C5 amended: scenario B yields [LONG, LONG, FLAT, SHORT, SHORT, FLAT]:
\* 0.40 is above long_exit and 0.10 is below short_exit, and neither reaches
\* the opposite entry threshold.
C5_ScenarioB ==
    (/\ kind = "Beta"
     /\ params = BetaStrategyParams
     /\ pc = "done"
     /\ ScoresOf(data) = ScenarioScores)
    => SignalsOf(self_signals) = <<LONG, LONG, FLAT, SHORT, SHORT, FLAT>>

C5_Witness ==
    /\ kind = "Beta"
    /\ params = BetaStrategyParams
    /\ pc = "done"
    /\ ScoresOf(data) = ScenarioScores
    /\ Len(self_signals) = 6

\* C6: from FLAT, while every non-null score lies in
\* [long_entry, short_entry], the Beta scan emits FLAT on every row.
C6_FlatInsideBand ==
    (/\ kind = "Beta"
     /\ \A i \in 1..Len(data) :
          \/ IsNa(data[i].percentile)
          \/ /\ params.long_entry <= data[i].percentile
             /\ data[i].percentile <= params.short_entry)
    => \A i \in 1..Len(signals) : signals[i].signal = FLAT

\* a full frame of one constant score strictly inside the band
C6_Witness ==
    /\ kind = "Beta"
    /\ pc = "done"
    /\ Len(self_signals) = MaxRows
    /\ \A i \in 1..Len(data) :
         /\ data[i].percentile = data[1].percentile
         /\ params.long_entry < data[i].percentile
         /\ data[i].percentile < params.short_entry

\* C7 as the specification states it: on every non-null spread, equal to a
\* threshold or not, the Arbitrage scan steps as the hysteresis table with
\* the spread thresholds.
C7_SameTableAsStated ==
    kind = "Arbitrage" =>
        \A i \in 1..Len(signals) :
            ~IsNa(data[i].spread) =>
                signals[i].signal =
                    HysteresisTable(Before(i), data[i].spread,
                                    params.spread_long_entry, params.spread_long_exit,
                                    params.spread_short_entry, params.spread_short_exit)

\* C7 amended: the Arbitrage scan steps as the hysteresis table except that
\* its exits are inclusive: at spread = spread_long_exit a LONG leaves (to
\* SHORT if the spread is above spread_short_entry, else to FLAT) and at
\* spread = spread_short_exit a SHORT leaves (to LONG if the spread is below
\* spread_long_entry, else to FLAT).
C7_SameTableButInclusiveExit ==
    kind = "Arbitrage" =>
        \A i \in 1..Len(signals) :
            LET s == data[i].spread
                b == Before(i)
            IN ~IsNa(s) =>
                 signals[i].signal =
                   (CASE b = LONG /\ s = params.spread_long_exit ->
                           (IF s > params.spread_short_entry THEN SHORT ELSE FLAT)
                      [] b = SHORT /\ s = params.spread_short_exit ->
                           (IF s < params.spread_long_entry THEN LONG ELSE FLAT)
                      [] OTHER ->
                           HysteresisTable(b, s,
                               params.spread_long_entry, params.spread_long_exit,
                               params.spread_short_entry, params.spread_short_exit))

\* a SHORT closed by a spread equal to spread_short_exit
C7_Witness ==
    /\ kind = "Arbitrage"
    /\ \E i \in 2..Len(signals) :
         /\ signals[i - 1].signal = SHORT
         /\ data[i].spread = params.spread_short_exit
         /\ signals[i].signal = FLAT

\* C9: the Event scan never emits SHORT; on a non-null divergence d it
\* enters LONG from FLAT iff d > divergence_long_entry or the auxiliary
\* condition holds, and leaves LONG for FLAT iff d < divergence_long_exit,
\* whatever the auxiliary condition is.
C9_EventTwoState ==
    kind = "Event" =>
        \A i \in 1..Len(signals) :
            LET d == data[i].divergence
                aux == /\ ~IsNa(data[i].slv_change)
                       /\ ~IsNa(data[i].comex_change)
                       /\ data[i].slv_change > params.slv_change_threshold
                       /\ data[i].comex_change < params.comex_change_threshold
            IN /\ signals[i].signal \in {FLAT, LONG}
               /\ (~IsNa(d) /\ Before(i) = FLAT) =>
                     (signals[i].signal = LONG
                        <=> (d > params.divergence_long_entry \/ aux))
               /\ (~IsNa(d) /\ Before(i) = LONG) =>
                     (signals[i].signal = FLAT <=> d < params.divergence_long_exit)

\* an entry by the auxiliary path alone, then a LONG kept on a row where the
\* auxiliary condition is false and d is not below the exit level
C9_Witness ==
    /\ kind = "Event"
    /\ Len(signals) >= 2
    /\ \E i \in 1..Len(signals) - 1 :
         /\ Before(i) = FLAT
         /\ ~IsNa(data[i].divergence)
         /\ data[i].divergence <= params.divergence_long_entry
         /\ signals[i].signal = LONG
         /\ ~IsNa(data[i + 1].divergence)
         /\ IsNa(data[i + 1].slv_change)
         /\ signals[i + 1].signal = LONG

\* the first n rows of the Beta frame all carry the score p
ConstantScore(n, p) == \A i \in 1..n : data[i].percentile = p

\* C25: thresholds are not validated: a Beta parameter object with
\* long_exit < long_entry is accepted, and then a constant score p with
\* long_exit < p < long_entry and p <= short_entry makes the scan, started
\* FLAT, alternate LONG, FLAT, LONG, ... so that the signal changes on
\* every row.
C25_UnorderedOscillates ==
    (kind = "Beta" /\ params.long_exit < params.long_entry) =>
        \A n \in 1..Len(signals) :
            \A p \in BetaScores :
                ( /\ ~IsNa(p)
                  /\ params.long_exit < p
                  /\ p < params.long_entry
                  /\ p <= params.short_entry
                  /\ ConstantScore(n, p) ) =>
                    /\ signals[n].signal = (IF n % 2 = 1 THEN LONG ELSE FLAT)
                    /\ signals[n].signal # Before(n)

\* a finished scan under long_exit < long_entry that read three equal scores
\* between the two thresholds
C25_Witness ==
    /\ kind = "Beta"
    /\ pc = "done"
    /\ params.long_exit < params.long_entry
    /\ Len(self_signals) = 3
    /\ \E p \in BetaScores :
         /\ ~IsNa(p)
         /\ params.long_exit < p
         /\ p < params.long_entry
         /\ p <= params.short_entry
         /\ ConstantScore(3, p)
    /\ SignalsOf(self_signals) = <<LONG, FLAT, LONG>>

\* the thresholds are in the order the hysteresis design expects
OrderedThresholds ==
    /\ params.long_entry < params.long_exit
    /\ params.long_exit <= params.short_exit
    /\ params.short_exit < params.short_entry

\* C26: under ordered thresholds, after every row with a non-null score p
\* the emitted state agrees with the zone of p: LONG implies p <= long_exit,
\* SHORT implies p >= short_exit, FLAT implies long_entry <= p <= short_entry.
C26_StateInZone ==
    (kind = "Beta" /\ OrderedThresholds) =>
        \A i \in 1..Len(signals) :
            LET p == data[i].percentile
                s == signals[i].signal
            IN ~IsNa(p) =>
                 /\ s = LONG => p <= params.long_exit
                 /\ s = SHORT => p >= params.short_exit
                 /\ s = FLAT => (params.long_entry <= p /\ p <= params.short_entry)

\* a scan under ordered thresholds that left a LONG for FLAT and left a
\* SHORT for FLAT, each on a non-null score
C26_Witness ==
    /\ kind = "Beta"
    /\ OrderedThresholds
    /\ \E i \in 2..Len(signals) :
         /\ ~IsNa(data[i].percentile)
         /\ signals[i - 1].signal = SHORT
         /\ signals[i].signal = FLAT
    /\ \E i \in 1..Len(signals) :
         /\ ~IsNa(data[i].percentile)
         /\ signals[i].signal = LONG

SpecScan == InitScan /\ [][NextScan]_vars

\* ------------------------------------------------------------ VectorBacktester
\* last calendar date of the model
MaxDate == 3

Dates == 1..MaxDate

PriceValues == {99, 100, 110}

\* a pd.Series is a function from its index (a set of dates) to its values
SeriesOver(values) == UNION { [idx -> values] : idx \in SUBSET Dates }

\* the index of a series in ascending order
SortedIndex(ser) ==
    LET idx == DOMAIN ser
    IN CHOOSE s \in [1..Cardinality(idx) -> idx] :
         \A i, j \in 1..Cardinality(idx) : i < j => s[i] < s[j]

\* Series.ffill(): a null takes the last non-null value before it
Ffill(col) ==
    [i \in 1..Len(col) |->
        LET known == { j \in 1..i : ~IsNa(col[j]) }
        IN IF known = {} THEN NaN
           ELSE col[CHOOSE j \in known : \A k \in known : k <= j]]

\* Series.fillna(v)
Fillna(col, v) == [i \in 1..Len(col) |-> IF IsNa(col[i]) THEN v ELSE col[i]]

\* the series is used unshifted
Shift_none(col) == col

\* Series.shift(1)
Shift(col) == [i \in 1..Len(col) |-> IF i = 1 THEN NaN ELSE col[i - 1]]

\* Series.diff().abs()
DiffAbs(col) ==
    [i \in 1..Len(col) |->
        IF i = 1 THEN NaN
        ELSE IF col[i] >= col[i - 1] THEN col[i] - col[i - 1]
        ELSE col[i - 1] - col[i]]

Column(df, name) == [i \in 1..Len(df) |-> df[i][name]]

\* df[df.index >= start_date] and df[df.index <= end_date], where set
RECURSIVE DateRange(_, _)
DateRange(df, cfg) ==
    IF df = <<>> THEN <<>>
    ELSE LET r == Head(df)
             keep == /\ (cfg.start_date # None => r.date >= cfg.start_date)
                     /\ (cfg.end_date # None => r.date <= cfg.end_date)
         IN (IF keep THEN <<r>> ELSE <<>>) \o DateRange(Tail(df), cfg)

\* VectorBacktester.prepare_data after the empty-price check
PrepareData(prices, sigs, cfg) ==
    LET idx == SortedIndex(prices)
        merged == [i \in 1..Len(idx) |->
                     IF idx[i] \in DOMAIN sigs THEN sigs[idx[i]] ELSE NaN]
        signal == Fillna(Ffill(merged), 0)
        df == [i \in 1..Len(idx) |->
                 [date |-> idx[i], price |-> prices[idx[i]], signal |-> signal[i]]]
    IN DateRange(df, cfg)

\* np.log of a price level
Ln(p) ==
    CASE p = 99 -> 45951
      [] p = 100 -> 46052
      [] p = 110 -> 47005

\* np.log(df['price'] / df['price'].shift(1))
MarketReturn(price) ==
    [i \in 1..Len(price) |-> IF i = 1 THEN NaN ELSE Ln(price[i]) - Ln(price[i - 1])]

\* every change of position is charged one cost rate
TradeCost_flat(chg, cfg) ==
    [i \in 1..Len(chg) |->
        IF chg[i] > 0 THEN cfg.commission_rate + cfg.slippage_rate ELSE 0]

\* df['position_change'] * total_cost_rate
TradeCost(chg, cfg) ==
    [i \in 1..Len(chg) |-> chg[i] * (cfg.commission_rate + cfg.slippage_rate)]

\* df['position'] * df['market_return'] - df['trade_cost']
StrategyReturn(pos, mr, cost) ==
    [i \in 1..Len(pos) |-> IF IsNa(mr[i]) THEN NaN ELSE pos[i] * mr[i] - cost[i]]

\* (1 + ret.fillna(0)).cumprod(), the first i rows
RECURSIVE CumProd(_, _)
CumProd(ret, i) ==
    IF i = 0 THEN <<>>
    ELSE LET before == CumProd(ret, i - 1)
             last == IF i = 1 THEN RetScale ELSE before[i - 1]
             growth == RetScale + (IF IsNa(ret[i]) THEN 0 ELSE ret[i])
         IN Append(before, (last * growth) \div RetScale)

\* the returns are added up, not compounded
CumulativeStrategy_sum(sr) ==
    LET RECURSIVE CumSum(_)
        CumSum(i) == IF i = 0 THEN 0
                     ELSE CumSum(i - 1) + (IF IsNa(sr[i]) THEN 0 ELSE sr[i])
    IN [i \in 1..Len(sr) |-> RetScale + CumSum(i)]

\* df['cumulative_strategy']
CumulativeStrategy(sr) == CumProd(sr, Len(sr))

\* df['cumulative_market']
CumulativeMarket(mr) == CumProd(mr, Len(mr))

\* the peak is the equity of the first row
StrategyPeak_first(cum) == [i \in 1..Len(cum) |-> cum[1]]

\* Series.cummax(), the first i rows
RECURSIVE CumMax(_, _)
CumMax(col, i) ==
    IF i = 0 THEN <<>>
    ELSE LET before == CumMax(col, i - 1)
         IN Append(before, IF i > 1 /\ before[i - 1] > col[i] THEN before[i - 1] ELSE col[i])

\* df['cumulative_strategy'].cummax()
StrategyPeak(cum) == CumMax(cum, Len(cum))

\* df['cumulative_strategy'] / df['strategy_peak'] - 1
Drawdown(cum, peak) ==
    [i \in 1..Len(cum) |-> (cum[i] * RetScale) \div peak[i] - RetScale]

\* the columns VectorBacktester.run adds to the prepared frame
RunColumns(df, cfg) ==
    LET mr == MarketReturn(Column(df, "price"))
        pos == Fillna(Shift(Column(df, "signal")), 0)
        chg == Fillna(DiffAbs(pos), 0)
        cost == TradeCost(chg, cfg)
        sr == StrategyReturn(pos, mr, cost)
        cm == CumulativeMarket(mr)
        cs == CumulativeStrategy(sr)
        peak == StrategyPeak(cs)
        dd == Drawdown(cs, peak)
    IN [i \in 1..Len(df) |->
          [date |-> df[i].date, price |-> df[i].price, signal |-> df[i].signal,
           market_return |-> mr[i], position |-> pos[i], position_change |-> chg[i],
           trade_cost |-> cost[i], strategy_return |-> sr[i],
           cumulative_market |-> cm[i], cumulative_strategy |-> cs[i],
           strategy_peak |-> peak[i], drawdown |-> dd[i]]]

\* the drawdown rows are counted whether consecutive or not
MaxDrawdownDuration_total(dd) ==
    Cardinality({ i \in 1..Len(dd) : ~IsNa(dd[i]) /\ dd[i] < 0 })

\* VectorBacktester._calc_max_drawdown_duration on the column drawdown
MaxDrawdownDuration(dd) ==
    LET in_drawdown == [i \in 1..Len(dd) |-> ~IsNa(dd[i]) /\ dd[i] < 0]
        groups == [i \in 1..Len(dd) |->
                     Cardinality({ j \in 1..i : ~in_drawdown[j] })]
        drawdown_lengths ==
            { Cardinality({ i \in 1..Len(dd) : groups[i] = g /\ in_drawdown[i] }) :
                g \in { groups[i] : i \in 1..Len(dd) } }
    IN IF ~(\E i \in 1..Len(dd) : in_drawdown[i]) THEN 0
       ELSE CHOOSE m \in drawdown_lengths : \A n \in drawdown_lengths : n <= m

Abs(x) == IF x < 0 THEN 0 - x ELSE x

RECURSIVE SumSeq(_)
SumSeq(col) == IF col = <<>> THEN 0 ELSE Head(col) + SumSeq(Tail(col))

RECURSIVE ISqrtIn(_, _, _)
ISqrtIn(x, lo, hi) ==
    IF lo >= hi THEN lo
    ELSE LET mid == (lo + hi + 1) \div 2
         IN IF mid * mid <= x THEN ISqrtIn(x, mid, hi) ELSE ISqrtIn(x, lo, mid - 1)

\* floor of the square root
ISqrt(x) == ISqrtIn(x, 0, 46340)

\* n * sum(x^2) - sum(x)^2, which is n * (n - 1) * variance
SpreadOf(col) ==
    Len(col) * SumSeq([i \in 1..Len(col) |-> col[i] * col[i]]) - SumSeq(col) * SumSeq(col)

\* col.std() > 0, with the sample standard deviation (null for one row)
StdPositive(col) == Len(col) > 1 /\ SpreadOf(col) > 0

\* col.dropna()
DropNaN(col) ==
    LET Valid(x) == ~IsNa(x)
    IN SelectSeq(col, Valid)

\* x ** k for a whole k, in fixed point
RECURSIVE Pow(_, _)
Pow(x, k) == IF k = 0 THEN RetScale ELSE (Pow(x, k - 1) * x) \div RetScale

\* (1 + total_return) ** (1 / years) - 1 with years = n_days / trading_days_per_year;
\* the configurations of the model make 1 / years a whole number
Cagr(total_return, n_days, cfg) ==
    IF n_days > 0
    THEN Pow(RetScale + total_return, cfg.trading_days_per_year \div n_days) - RetScale
    ELSE 0

\* col.std() * np.sqrt(trading_days_per_year): the sample deviation is null
\* for a single row, and a positive deviation stays positive in fixed point
AnnualisedStd(col, cfg) ==
    LET n == Len(col)
        root == ISqrt((cfg.trading_days_per_year * SpreadOf(col)) \div (n * (n - 1)))
    IN IF n < 2 THEN NaN
       ELSE IF SpreadOf(col) > 0 /\ root = 0 THEN 1
       ELSE root

\* returns[returns < 0]
DownsideReturns(returns) ==
    LET Negative(x) == x < 0
    IN SelectSeq(returns, Negative)

\* downside_returns.std() * sqrt(trading_days_per_year) if len(downside_returns) > 0 else 0
DownsideStd(returns, cfg) ==
    IF Len(DownsideReturns(returns)) > 0
    THEN AnnualisedStd(DownsideReturns(returns), cfg)
    ELSE 0

\* the quotient is taken although the volatility is not positive
SharpeRatio_unguarded(excess_return, volatility) ==
    IF volatility > 0 THEN (excess_return * RetScale) \div volatility
    ELSE IF excess_return < 0 THEN 0 - Inf
    ELSE Inf

\* excess_return / volatility if volatility > 0 else 0
SharpeRatio(excess_return, volatility) ==
    IF ~IsNa(volatility) /\ volatility > 0
    THEN (excess_return * RetScale) \div volatility
    ELSE 0

\* excess_return / downside_std if downside_std > 0 else 0
SortinoRatio(excess_return, downside_std) ==
    IF ~IsNa(downside_std) /\ downside_std > 0
    THEN (excess_return * RetScale) \div downside_std
    ELSE 0

\* cagr / abs(max_drawdown) if max_drawdown != 0 else 0
CalmarRatio(cagr, max_drawdown) ==
    IF max_drawdown # 0 THEN (cagr * RetScale) \div Abs(max_drawdown) ELSE 0

\* n * sum(x * y) - sum(x) * sum(y), which is n * (n - 1) * covariance
CoSpreadOf(x, y) ==
    Len(x) * SumSeq([i \in 1..Len(x) |-> x[i] * y[i]]) - SumSeq(x) * SumSeq(y)

\* returns.cov(market_returns) / market_returns.var() if market_returns.var() > 0
\* else 0; the variance of a single row is null; the quotient is kept to two
\* decimals
BetaCoefficient(returns, market_returns) ==
    IF Len(market_returns) > 1 /\ SpreadOf(market_returns) > 0
    THEN ((CoSpreadOf(returns, market_returns) * 100) \div SpreadOf(market_returns))
            * (RetScale \div 100)
    ELSE 0

\* position_changes[position_changes].index.tolist(): the rows of a
\* position change, in order
TradeIndices(df) ==
    LET rows == { i \in 1..Len(df) : df[i].position_change > 0 }
    IN [j \in 1..Cardinality(rows) |->
          CHOOSE i \in rows : Cardinality({ m \in rows : m < i }) = j - 1]

\* rows of df.loc[start_idx:end_idx]: a label slice takes both end rows
LocSlice(start_idx, end_idx) == start_idx..end_idx

\* df.loc[start_idx:end_idx, 'strategy_return'].sum(); sum() skips nulls
PeriodReturn(df, start_idx, end_idx) ==
    SumSeq([i \in 1..Len(df) |->
              IF i \in LocSlice(start_idx, end_idx) /\ ~IsNa(df[i].strategy_return)
              THEN df[i].strategy_return
              ELSE 0])

\* the profit factor is 1 when no segment loses
CalcTradeStats_unitfactor(df) ==
    LET trade_indices == TradeIndices(df)
        trade_returns ==
            [j \in 1..(Len(trade_indices) - 1) |->
                PeriodReturn(df, trade_indices[j], trade_indices[j + 1])]
        Win(x) == x > 0
        Loss(x) == x < 0
        wins == SelectSeq(trade_returns, Win)
        losses == SelectSeq(trade_returns, Loss)
        avg_win == IF Len(wins) > 0 THEN SumSeq(wins) \div Len(wins) ELSE 0
        avg_loss == IF Len(losses) > 0 THEN Abs(SumSeq(losses) \div Len(losses))
                    ELSE RetScale
    IN IF Len(trade_indices) < 2
       THEN [win_rate |-> 0, profit_factor |-> 0, avg_trade_return |-> 0]
       ELSE [win_rate |-> (Len(wins) * RetScale) \div Len(trade_returns),
             profit_factor |->
                IF Len(losses) = 0 THEN RetScale
                ELSE (avg_win * RetScale) \div avg_loss,
             avg_trade_return |-> SumSeq(trade_returns) \div Len(trade_returns)]

\* VectorBacktester._calc_trade_stats
CalcTradeStats(df) ==
    LET trade_indices == TradeIndices(df)
        trade_returns ==
            [j \in 1..(Len(trade_indices) - 1) |->
                PeriodReturn(df, trade_indices[j], trade_indices[j + 1])]
        Win(x) == x > 0
        Loss(x) == x < 0
        wins == SelectSeq(trade_returns, Win)
        losses == SelectSeq(trade_returns, Loss)
        avg_win == IF Len(wins) > 0 THEN SumSeq(wins) \div Len(wins) ELSE 0
        avg_loss == IF Len(losses) > 0 THEN Abs(SumSeq(losses) \div Len(losses))
                    ELSE RetScale
    IN IF Len(trade_indices) < 2
       THEN [win_rate |-> 0, profit_factor |-> 0, avg_trade_return |-> 0]
       ELSE [win_rate |-> (Len(wins) * RetScale) \div Len(trade_returns),
             profit_factor |->
                IF avg_loss > 0 THEN (avg_win * RetScale) \div avg_loss ELSE 0,
             avg_trade_return |-> SumSeq(trade_returns) \div Len(trade_returns)]

\* VectorBacktester._calculate_metrics on the stored record
CalculateMetrics(df, cfg) ==
    LET returns == DropNaN(Column(df, "strategy_return"))
        market_returns == DropNaN(Column(df, "market_return"))
        n_days == Len(returns)
        total_return == df[Len(df)].cumulative_strategy - RetScale
        cagr == Cagr(total_return, n_days, cfg)
        volatility == AnnualisedStd(returns, cfg)
        max_drawdown ==
            CHOOSE m \in { df[i].drawdown : i \in 1..Len(df) } :
                \A i \in 1..Len(df) : m <= df[i].drawdown
        excess_return == cagr - cfg.risk_free_rate
        stats == CalcTradeStats(df)
        benchmark_return == df[Len(df)].cumulative_market - RetScale
    IN [total_return |-> total_return,
        cagr |-> cagr,
        volatility |-> volatility,
        max_drawdown |-> max_drawdown,
        max_drawdown_duration |-> MaxDrawdownDuration(Column(df, "drawdown")),
        sharpe_ratio |-> SharpeRatio(excess_return, volatility),
        sortino_ratio |-> SortinoRatio(excess_return, DownsideStd(returns, cfg)),
        calmar_ratio |-> CalmarRatio(cagr, max_drawdown),
        total_trades |-> Cardinality({ i \in 1..Len(df) : df[i].position_change > 0 }),
        win_rate |-> stats.win_rate,
        profit_factor |-> stats.profit_factor,
        avg_trade_return |-> stats.avg_trade_return,
        benchmark_return |-> benchmark_return,
        alpha |-> total_return - benchmark_return,
        beta |-> BetaCoefficient(returns, market_returns)]

\* cost rates: the defaults of BacktestConfig, or no cost
CostChoices == { <<10, 5>>, <<0, 0>> }

\* trading days of a year of the model, so that 1 / years is a whole number
\* for records of up to four rows
TradingDaysPerYear == 6

ConfigChoices ==
    { [start_date |-> s, end_date |-> e, commission_rate |-> c[1], slippage_rate |-> c[2],
       risk_free_rate |-> 200, trading_days_per_year |-> TradingDaysPerYear] :
        s \in {None, 2}, e \in {None, 3}, c \in CostChoices }

InitBacktest ==
    /\ ScanIdle
    /\ config \in ConfigChoices
    /\ price_series = <<>>
    /\ signals_df = <<>>
    /\ results = <<>>
    /\ is_run = FALSE
    /\ raised = ""
    /\ metrics = PerformanceMetrics
    /\ JoinIdle
    /\ RollIdle
    /\ PairIdle
    /\ PrepIdle
    /\ DurationIdle
    /\ TradeIdle
    /\ LoadIdle
    /\ SessionIdle
    /\ CallIdle

\* run(): prepare_data raises on an empty price series
RunNoPrice ==
    /\ ~is_run /\ raised = ""
    /\ \E sigs \in SeriesOver({SHORT, FLAT, LONG}) :
         /\ price_series' = <<>>
         /\ signals_df' = sigs
    /\ raised' = "ValueError"
    /\ UNCHANGED <<config, results, is_run, metrics, scanVars, joinVars, rollVars, pairVars, prepVars, durationVars, tradeVars, loadVars, sessionVars, callVars>>

\* run(): fewer than two rows are left after merging and filtering
RunTooShort ==
    /\ ~is_run /\ raised = ""
    /\ \E prices \in SeriesOver(PriceValues), sigs \in SeriesOver({SHORT, FLAT, LONG}) :
         /\ DOMAIN prices # {}
         /\ Len(PrepareData(prices, sigs, config)) < 2
         /\ price_series' = prices
         /\ signals_df' = sigs
    /\ raised' = "ValueError"
    /\ UNCHANGED <<config, results, is_run, metrics, scanVars, joinVars, rollVars, pairVars, prepVars, durationVars, tradeVars, loadVars, sessionVars, callVars>>

\* run(): the record is computed and stored
RunOk ==
    /\ ~is_run /\ raised = ""
    /\ \E prices \in SeriesOver(PriceValues), sigs \in SeriesOver({SHORT, FLAT, LONG}) :
         /\ DOMAIN prices # {}
         /\ Len(PrepareData(prices, sigs, config)) >= 2
         /\ price_series' = prices
         /\ signals_df' = sigs
         /\ results' = RunColumns(PrepareData(prices, sigs, config), config)
         /\ metrics' = CalculateMetrics(results', config)
    /\ is_run' = TRUE
    /\ UNCHANGED <<config, raised, scanVars, joinVars, rollVars, pairVars, prepVars, durationVars, tradeVars, loadVars, sessionVars, callVars>>

NextBacktest == RunNoPrice \/ RunTooShort \/ RunOk

SpecBacktest == InitBacktest /\ [][NextBacktest]_vars

\* C1: in a backtest record the executed position of the first row is 0 and
\* that of every later row is the signal of the row just before it; when the
\* signal series has the index of the price series that signal is the raw
\* signal of the preceding date.
C1_PositionIsLaggedSignal ==
    is_run =>
        /\ results[1].position = 0
        /\ \A t \in 2..Len(results) : results[t].position = results[t - 1].signal
        /\ DOMAIN signals_df = DOMAIN price_series =>
             \A t \in 2..Len(results) :
                results[t].position = signals_df[results[t - 1].date]

\* a record over a shared index whose positions differ from the same-day
\* signals on the first and on a later row
C1_Witness ==
    /\ is_run
    /\ DOMAIN signals_df = DOMAIN price_series
    /\ Len(results) >= 3
    /\ results[1].signal # 0
    /\ results[2].signal # results[1].signal
    /\ results[3].position = results[2].signal

\* the most recent raw signal dated on or before d, 0 when there is none
RawSignalAsOf(d) ==
    LET known == { e \in DOMAIN signals_df : e <= d }
    IN IF known = {} THEN 0
       ELSE signals_df[CHOOSE e \in known : \A f \in known : f <= e]

\* C29: no emitted signal is lost in the merge: on every row after the first
\* the executed position is the most recent raw signal dated on or before the
\* previous price date (0 if none), also when that signal's own date is not a
\* price date.
C29_NoSignalLost ==
    is_run =>
        \A t \in 2..Len(results) :
            results[t].position = RawSignalAsOf(results[t - 1].date)

\* no row of the record has a negative strategy return
NoNegativeReturn ==
    \A t \in 1..Len(results) :
        IsNa(results[t].strategy_return) \/ results[t].strategy_return >= 0

\* the market returns of the record do not vary
MarketVarianceZero ==
    \A t, u \in 2..Len(results) : results[t].market_return = results[u].market_return

\* a metric that is a number
Finite(x) == ~IsNa(x) /\ x # Inf /\ x # 0 - Inf

\* C21: every ratio of the metrics is 0, and nothing is raised, when its
\* denominator is zero: Sharpe when the volatility is 0, Sortino when there is
\* no negative return, Calmar when max_drawdown is 0, beta when the variance
\* of the market returns is 0.
C21_ZeroDenominatorRatios ==
    is_run =>
        /\ raised = ""
        /\ metrics.volatility = 0 => metrics.sharpe_ratio = 0
        /\ NoNegativeReturn => metrics.sortino_ratio = 0
        /\ metrics.max_drawdown = 0 => metrics.calmar_ratio = 0
        /\ MarketVarianceZero => metrics.beta = 0
        /\ Finite(metrics.sharpe_ratio)
        /\ Finite(metrics.sortino_ratio)
        /\ Finite(metrics.calmar_ratio)
        /\ Finite(metrics.beta)

\* a record of three rows over a constant price: the four denominators are
\* zero while the excess return, the numerator of Sharpe and Sortino, is not
C21_Witness ==
    /\ is_run
    /\ Len(results) = 3
    /\ metrics.volatility = 0
    /\ NoNegativeReturn
    /\ metrics.max_drawdown = 0
    /\ MarketVarianceZero
    /\ metrics.cagr - config.risk_free_rate # 0
    /\ metrics.sharpe_ratio = 0
    /\ metrics.beta = 0

\* commission_rate + slippage_rate of the configuration
CostRate == config.commission_rate + config.slippage_rate

\* C17: for every row t after the first, strategy_return(t) = position(t) *
\* market_return(t) - |position(t) - position(t-1)| * (commission + slippage);
\* the first row is charged no cost; a flip from +1 to -1 is charged twice
\* the cost of a flip from 0 to 1; with commission 0.001 and slippage 0.0005 a
\* flip from 0 to 1 subtracts exactly 0.0015 from the return of its period.
C17_ReturnNetOfCost ==
    is_run =>
        /\ results[1].trade_cost = 0
        /\ \A t \in 2..Len(results) :
             LET r == results[t]
                 before == results[t - 1].position
             IN /\ r.strategy_return =
                      r.position * r.market_return - Abs(r.position - before) * CostRate
                /\ (before = LONG /\ r.position = SHORT) => r.trade_cost = 2 * CostRate
                /\ (before = FLAT /\ r.position = LONG) =>
                      /\ r.trade_cost = CostRate
                      /\ (config.commission_rate = 10 /\ config.slippage_rate = 5) =>
                            r.strategy_return = r.market_return - 15

\* under the default rates a record that goes from 0 to 1 and then flips to -1
C17_Witness ==
    /\ is_run
    /\ config.commission_rate = 10 /\ config.slippage_rate = 5
    /\ Len(results) >= 3
    /\ results[1].position = FLAT
    /\ results[2].position = LONG
    /\ results[2].trade_cost = 15
    /\ results[2].market_return # 0
    /\ results[3].position = SHORT
    /\ results[3].trade_cost = 30

\* C18: with zero commission and zero slippage and an executed position of 1
\* on every row that has a market return, the strategy equity equals the
\* benchmark equity on every row, the last row of prices [100, 110, 99]
\* included.
C18_EquityIsBenchmark ==
    (/\ is_run
     /\ CostRate = 0
     /\ \A t \in 2..Len(results) : results[t].position = LONG) =>
        \A t \in 1..Len(results) :
            results[t].cumulative_strategy = results[t].cumulative_market

\* scenario C: prices [100, 110, 99] held long at no cost
C18_Witness ==
    /\ is_run
    /\ CostRate = 0
    /\ Column(results, "price") = <<100, 110, 99>>
    /\ results[2].position = LONG
    /\ results[3].position = LONG
    /\ results[3].cumulative_strategy = results[3].cumulative_market
    /\ results[3].cumulative_strategy < RetScale
    /\ results[2].cumulative_strategy > RetScale

\* C19: drawdown(t) <= 0 on every row, and drawdown(t) = 0 on every row whose
\* strategy equity equals its running maximum, the first row included.
C19_DrawdownSign ==
    is_run =>
        /\ results[1].drawdown = 0
        /\ \A t \in 1..Len(results) :
             /\ results[t].drawdown <= 0
             /\ (\A j \in 1..t :
                    results[j].cumulative_strategy <= results[t].cumulative_strategy)
                  => results[t].drawdown = 0

\* a record that falls below its peak and then makes a new maximum
C19_Witness ==
    /\ is_run
    /\ Len(results) >= 3
    /\ results[2].drawdown < 0
    /\ results[3].drawdown = 0
    /\ results[3].cumulative_strategy > results[1].cumulative_strategy

\* ------------------------------------ _calc_max_drawdown_duration (backtester)
MaxDrawdownRows == 6

\* drawdown levels of a row: at the peak, or below it
DrawdownValues == {-200, -100, 0}

DrawdownChoices == UNION { [1..n -> DrawdownValues] : n \in 0..MaxDrawdownRows }

InitDuration ==
    /\ ScanIdle
    /\ BacktestIdle
    /\ JoinIdle
    /\ RollIdle
    /\ PairIdle
    /\ PrepIdle
    /\ drawdown \in DrawdownChoices
    /\ duration = 0
    /\ measured = FALSE
    /\ TradeIdle
    /\ LoadIdle
    /\ SessionIdle
    /\ CallIdle

\* _calc_max_drawdown_duration(df)
CalcMaxDrawdownDuration ==
    /\ ~measured
    /\ measured' = TRUE
    /\ duration' = MaxDrawdownDuration(drawdown)
    /\ UNCHANGED <<drawdown, scanVars, backtestVars, joinVars, rollVars, pairVars, prepVars, tradeVars, loadVars, sessionVars, callVars>>

NextDuration == CalcMaxDrawdownDuration

SpecDuration == InitDuration /\ [][NextDuration]_vars

\* rows a..b are all in drawdown
RunOfDrawdown(a, b) == \A i \in a..b : drawdown[i] < 0

\* C20: max_drawdown_duration is the length of the longest run of consecutive
\* rows with drawdown < 0: 0 when no row is in drawdown, runs at the start or
\* at the end of the series counted in full.
C20_LongestDrawdownRun ==
    measured =>
        /\ \A a, b \in 1..Len(drawdown) :
             (a <= b /\ RunOfDrawdown(a, b)) => duration >= b - a + 1
        /\ \/ duration = 0
           \/ \E a, b \in 1..Len(drawdown) :
                a <= b /\ RunOfDrawdown(a, b) /\ duration = b - a + 1

\* a one-row run at the start, a gap, and a longer run that reaches the end
C20_Witness ==
    /\ measured
    /\ Len(drawdown) = 5
    /\ drawdown[1] < 0
    /\ drawdown[2] = 0
    /\ RunOfDrawdown(3, 5)
    /\ duration = 3

\* ------------------------------------------ VectorBacktester._calc_trade_stats
\* longest record handed to _calc_trade_stats
MaxTradeRows == 5

\* market returns of the rows after the first
TradeMarketReturns == {-100, 100}

\* the columns of a record of run() that _calc_trade_stats reads, for a
\* column of executed positions and a column of market returns, at the
\* default cost rates
TradeFrame(pos, mr) ==
    LET chg == Fillna(DiffAbs(pos), 0)
        cost == TradeCost(chg, BacktestConfig)
        sr == StrategyReturn(pos, mr, cost)
    IN [i \in 1..Len(pos) |->
          [position |-> pos[i], market_return |-> mr[i],
           position_change |-> chg[i], strategy_return |-> sr[i]]]

\* records of up to MaxTradeRows rows: the first row has position 0 and no
\* market return
TradeFrameChoices ==
    { <<>> } \cup
    UNION { { TradeFrame([i \in 1..n |-> IF i = 1 THEN 0 ELSE pos[i]],
                         [i \in 1..n |-> IF i = 1 THEN NaN ELSE mr[i]]) :
                pos \in [2..n -> {SHORT, FLAT, LONG}],
                mr \in [2..n -> TradeMarketReturns] } :
            n \in 1..MaxTradeRows }

InitTradeStats ==
    /\ ScanIdle
    /\ BacktestIdle
    /\ JoinIdle
    /\ RollIdle
    /\ PairIdle
    /\ PrepIdle
    /\ DurationIdle
    /\ trade_df \in TradeFrameChoices
    /\ trade_stats = [win_rate |-> 0, profit_factor |-> 0, avg_trade_return |-> 0]
    /\ stats_done = FALSE
    /\ LoadIdle
    /\ SessionIdle
    /\ CallIdle

\* win_rate, profit_factor, avg_trade_return = self._calc_trade_stats(df)
CallCalcTradeStats ==
    /\ ~stats_done
    /\ stats_done' = TRUE
    /\ trade_stats' = CalcTradeStats(trade_df)
    /\ UNCHANGED <<trade_df, scanVars, backtestVars, joinVars, rollVars, pairVars, prepVars, durationVars, loadVars, sessionVars, callVars>>

NextTradeStats == CallCalcTradeStats

SpecTradeStats == InitTradeStats /\ [][NextTradeStats]_vars

\* rows of the position changes of the record, b1 < b2 < ... < bk
Boundaries == TradeIndices(trade_df)

\* rows whose strategy return is summed into segment j
Segment(j) == LocSlice(Boundaries[j], Boundaries[j + 1])

\* sum of the strategy returns of segment j
SegmentReturn(j) ==
    SumSeq([i \in 1..Len(trade_df) |->
              IF i \in Segment(j) /\ ~IsNa(trade_df[i].strategy_return)
              THEN trade_df[i].strategy_return
              ELSE 0])

\* the positive and the negative segment returns
WinningSegments == { j \in 1..(Len(Boundaries) - 1) : SegmentReturn(j) > 0 }

LosingSegments == { j \in 1..(Len(Boundaries) - 1) : SegmentReturn(j) < 0 }

\* mean of the returns of a non-empty set of segments
MeanSegmentReturn(segs) ==
    SumSeq([j \in 1..(Len(Boundaries) - 1) |->
              IF j \in segs THEN SegmentReturn(j) ELSE 0]) \div Cardinality(segs)

\* mean positive segment return, 0 when no segment wins
MeanWin == IF WinningSegments = {} THEN 0 ELSE MeanSegmentReturn(WinningSegments)

\* C22 as stated: profit_factor is the mean positive segment return divided
\* by the absolute mean negative segment return, and is 1 when no segment
\* loses.
C22_ProfitFactorAsStated ==
    (stats_done /\ Len(Boundaries) >= 2) =>
        trade_stats.profit_factor =
            (IF LosingSegments = {} THEN RetScale
             ELSE (MeanWin * RetScale) \div Abs(MeanSegmentReturn(LosingSegments)))

\* C22: profit_factor is the mean positive segment return (0 when no
\* segment wins) divided by the absolute mean negative segment return, the
\* divisor being 1 when no segment loses.
C22_ProfitFactor ==
    (stats_done /\ Len(Boundaries) >= 2) =>
        trade_stats.profit_factor =
            (IF LosingSegments = {} THEN MeanWin
             ELSE (MeanWin * RetScale) \div Abs(MeanSegmentReturn(LosingSegments)))

\* statistics of a record with two winning segments and no losing one,
\* whose profit factor is not 1
C22_Witness ==
    /\ stats_done
    /\ Len(Boundaries) >= 3
    /\ LosingSegments = {}
    /\ Cardinality(WinningSegments) >= 2
    /\ trade_stats.profit_factor = MeanWin
    /\ trade_stats.profit_factor # RetScale

\* C30: the trade segments are pairwise disjoint: with position changes at
\* rows b1 < ... < bk, k >= 2, there are k - 1 segments and the strategy
\* return of a row is summed into at most one of them; with fewer than two
\* position changes the three statistics are 0.
C30_SegmentsDisjoint ==
    stats_done =>
        /\ Len(Boundaries) >= 2 =>
             \A j, l \in 1..(Len(Boundaries) - 1) :
                j # l => Segment(j) \cap Segment(l) = {}
        /\ Len(Boundaries) < 2 =>
             trade_stats = [win_rate |-> 0, profit_factor |-> 0, avg_trade_return |-> 0]

\* ------------------------------------------------------------ series loaders
\* most rows a query returns
MaxQueryRows == 3

QueryValues == {10, 20}

\* results of SELECT as_of_date, value ... ORDER BY as_of_date: the dates
\* never decrease, and a date may come more than once
QueryRowChoices ==
    UNION { { rows \in [1..n -> [as_of_date : Dates, value : QueryValues]] :
                \A i \in 1..(n - 1) : rows[i].as_of_date <= rows[i + 1].as_of_date } :
            n \in 0..MaxQueryRows }

\* df.drop_duplicates(subset='as_of_date', keep='last')
DropDuplicates(rows) ==
    LET last == { i \in 1..Len(rows) :
                    \A j \in (i + 1)..Len(rows) : rows[j].as_of_date # rows[i].as_of_date }
    IN [k \in 1..Cardinality(last) |->
          rows[CHOOSE i \in last : Cardinality({ m \in last : m < i }) = k - 1]]

\* df.set_index('as_of_date').sort_index()['value']: the series as a function
\* of its dates
SetIndex(rows) ==
    [d \in { rows[i].as_of_date : i \in 1..Len(rows) } |->
        rows[CHOOSE i \in 1..Len(rows) : rows[i].as_of_date = d].value]

\* get_inventory_series_from_db / get_price_series_from_db after the query
GetSeriesFromDb(rows) ==
    IF rows = <<>> THEN <<>> ELSE SetIndex(DropDuplicates(rows))

InitLoad ==
    /\ ScanIdle
    /\ BacktestIdle
    /\ JoinIdle
    /\ RollIdle
    /\ PairIdle
    /\ PrepIdle
    /\ DurationIdle
    /\ TradeIdle
    /\ query_rows \in QueryRowChoices
    /\ loaded = <<>>
    /\ load_state = "idle"
    /\ SessionIdle
    /\ CallIdle

\* the loader returns; no path of it raises
LoadSeries ==
    /\ load_state = "idle"
    /\ load_state' = "returned"
    /\ loaded' = GetSeriesFromDb(query_rows)
    /\ UNCHANGED <<query_rows, scanVars, backtestVars, joinVars, rollVars, pairVars, prepVars, durationVars, tradeVars, sessionVars, callVars>>

NextLoad == LoadSeries

SpecLoad == InitLoad /\ [][NextLoad]_vars

\* the dates of the rows are not strictly increasing
Malformed(rows) ==
    \E i \in 1..(Len(rows) - 1) : rows[i + 1].as_of_date <= rows[i].as_of_date

\* C23: a series with duplicate dates, or dates that are not strictly
\* increasing, is rejected with MalformedSeries; it is never de-duplicated or
\* re-sorted into a series that is returned.
C23_MalformedRejected ==
    (load_state # "idle" /\ Malformed(query_rows)) => load_state = "MalformedSeries"

\* ------------------------------------------- repeated runs of one backtester
\* price series in the database at the time of a run: the first n dates
SessionPrices ==
    { [d \in 1..n |-> IF d % 2 = 1 THEN 100 ELSE 110] : n \in 0..MaxDate }

\* signal frames handed to the runs
SessionSignals == { [d \in Dates |-> LONG], [d \in Dates |-> SHORT] }

\* results, metrics and _is_run of the backtester
Stored == [results |-> results, metrics |-> metrics, is_run |-> is_run]

InitSession ==
    /\ ScanIdle
    /\ config \in ConfigChoices
    /\ price_series = <<>>
    /\ signals_df = <<>>
    /\ results = <<>>
    /\ is_run = FALSE
    /\ raised = ""
    /\ metrics = PerformanceMetrics
    /\ JoinIdle
    /\ RollIdle
    /\ PairIdle
    /\ PrepIdle
    /\ DurationIdle
    /\ TradeIdle
    /\ LoadIdle
    /\ SessionIdle
    /\ CallIdle

\* a failed run also resets the backtester
SessionRunRaises_clears ==
    /\ \E prices \in SessionPrices, sigs \in SessionSignals :
         /\ DOMAIN prices = {} \/ Len(PrepareData(prices, sigs, config)) < 2
         /\ price_series' = prices
         /\ signals_df' = sigs
    /\ raised' = "ValueError"
    /\ prior' = Stored
    /\ results' = <<>>
    /\ is_run' = FALSE
    /\ metrics' = PerformanceMetrics
    /\ UNCHANGED <<config, scanVars, joinVars, rollVars, pairVars, prepVars, durationVars, tradeVars, loadVars, callVars>>

\* run(): prepare_data raises on an empty price series, or run raises on
\* fewer than two rows; nothing has been assigned
SessionRunRaises ==
    /\ \E prices \in SessionPrices, sigs \in SessionSignals :
         /\ DOMAIN prices = {} \/ Len(PrepareData(prices, sigs, config)) < 2
         /\ price_series' = prices
         /\ signals_df' = sigs
    /\ raised' = "ValueError"
    /\ prior' = Stored
    /\ UNCHANGED <<config, results, is_run, metrics, scanVars, joinVars, rollVars, pairVars, prepVars, durationVars, tradeVars, loadVars, callVars>>

\* run(): the record is computed and stored, replacing that of an earlier run
SessionRunOk ==
    /\ \E prices \in SessionPrices, sigs \in SessionSignals :
         /\ DOMAIN prices # {}
         /\ Len(PrepareData(prices, sigs, config)) >= 2
         /\ price_series' = prices
         /\ signals_df' = sigs
         /\ results' = RunColumns(PrepareData(prices, sigs, config), config)
         /\ metrics' = CalculateMetrics(results', config)
    /\ is_run' = TRUE
    /\ raised' = ""
    /\ prior' = Stored
    /\ UNCHANGED <<config, scanVars, joinVars, rollVars, pairVars, prepVars, durationVars, tradeVars, loadVars, callVars>>

NextSession == SessionRunRaises \/ SessionRunOk

SpecSession == InitSession /\ [][NextSession]_vars

\* run() has been called
RunCalled == signals_df # <<>>

\* fewer than two rows are left for the last call, or it had no price
TooFewRows ==
    \/ DOMAIN price_series = {}
    \/ Len(PrepareData(price_series, signals_df, config)) < 2

\* C24: run raises to the caller, and produces no record, when fewer than 2
\* price rows remain after merging and date filtering or the price series is
\* empty; on that failure results, metrics and the is-run flag are exactly
\* what they were before the call.
C24_FailedRunKeepsState ==
    RunCalled =>
        /\ TooFewRows <=> raised = "ValueError"
        /\ raised = "ValueError" => Stored = prior

\* a run that failed on a one-row frame after a run that had succeeded: the
\* earlier record is still stored
C24_Witness ==
    /\ RunCalled
    /\ raised = "ValueError"
    /\ DOMAIN price_series # {}
    /\ prior.is_run
    /\ Len(results) >= 2
    /\ is_run

\* --------------------------------- repeated calls on one strategy object
\* most rows of the input frame of a call
MaxCallRows == 2

\* score columns of the rows a call may read: an entry score, a score inside
\* the band between entry and exit, and a score beyond the other side
CallRows(k) ==
    CASE k = "Beta" -> { [percentile |-> pct] : pct \in {30, 200, 960} }
      [] k = "Arbitrage" ->
           { [comex_pct |-> c, lme_pct |-> 500] : c \in {200, 400, 800} }
      [] k = "Event" ->
           { [divergence |-> dv, slv_change |-> 0, comex_change |-> 0] :
               dv \in {400, 1000, 1600} }

\* non-empty frames the database may hold when generate_signals is called
CallFrames(k) == UNION { [1..n -> CallRows(k)] : n \in 1..MaxCallRows }

\* a call resumes from the position the call before it left
StartPosition_resume(left) == left

\* signals = []; position = Signal.FLAT, whatever self._position is
StartPosition(left) == FLAT

\* body of the loop of generate_signals of strategy class k on row r
Transition(k, pos, r, p) ==
    CASE k = "Beta" -> BetaTransition(pos, r.percentile, p)
      [] k = "Arbitrage" ->
           ArbitrageTransition(pos, Spread(r.comex_pct, r.lme_pct), p)
      [] k = "Event" ->
           EventTransition(pos, r.divergence, r.slv_change, r.comex_change, p)

\* the loop of generate_signals over the rows from row i on: the date,
\* signal and reason columns of the emitted rows
RECURSIVE ScanFrame(_, _, _, _, _)
ScanFrame(k, frame, p, i, pos) ==
    IF i > Len(frame) THEN <<>>
    ELSE LET t == Transition(k, pos, frame[i], p)
         IN <<[date |-> i, signal |-> t.position, reason |-> t.reason]>>
            \o ScanFrame(k, frame, p, i + 1, t.position)

\* the signal get_current_signal reports when the database has not changed
\* since the table was stored
GetCurrentSignal(stored) ==
    IF stored = <<>> THEN FLAT ELSE stored[Len(stored)].signal

\* the last two calls, the latest last
Remember(log, call) ==
    IF Len(log) < 2 THEN Append(log, call) ELSE <<log[2], call>>

InitCalls ==
    /\ kind \in {"Beta", "Arbitrage", "Event"}
    /\ params \in ParamChoices(kind)
    /\ pc = "idle"
    /\ position = FLAT
    /\ signals = <<>>
    /\ data = <<>>
    /\ self_position = FLAT
    /\ self_signals = <<>>
    /\ BacktestIdle
    /\ JoinIdle
    /\ RollIdle
    /\ PairIdle
    /\ PrepIdle
    /\ DurationIdle
    /\ TradeIdle
    /\ LoadIdle
    /\ SessionIdle
    /\ calls = <<>>

\* generate_signals on an empty input frame: self._signals is cleared and
\* returned, self._position is not assigned
CallOnEmptyFrame ==
    /\ self_signals' = <<>>
    /\ calls' = Remember(calls, [frame |-> <<>>, signals |-> <<>>])
    /\ UNCHANGED <<kind, params, pc, position, signals, data, self_position, backtestVars, joinVars, rollVars, pairVars, prepVars, durationVars, tradeVars, loadVars, sessionVars>>

\* generate_signals on a frame with rows: the whole scan, then
\* self._signals = pd.DataFrame(signals); self._position = position
CallOnFrame ==
    /\ \E frame \in CallFrames(kind) :
         /\ self_signals' = ScanFrame(kind, frame, params, 1, StartPosition(self_position))
         /\ self_position' = self_signals'[Len(frame)].signal
         /\ calls' = Remember(calls, [frame |-> frame, signals |-> self_signals'])
    /\ UNCHANGED <<kind, params, pc, position, signals, data, backtestVars, joinVars, rollVars, pairVars, prepVars, durationVars, tradeVars, loadVars, sessionVars>>

NextCalls == CallOnEmptyFrame \/ CallOnFrame

SpecCalls == InitCalls /\ [][NextCalls]_vars

\* C27: every call of generate_signals starts its scan from FLAT whatever
\* position an earlier call left on the object, so two calls on unchanged
\* input return the same signal sequence.
C27_CallsStartFlat ==
    /\ \A c \in 1..Len(calls) :
         calls[c].frame # <<>> =>
            calls[c].signals[1].signal =
                Transition(kind, FLAT, calls[c].frame[1], params).position
    /\ (Len(calls) = 2 /\ calls[1].frame = calls[2].frame) =>
          calls[1].signals = calls[2].signals

\* two calls on the same frame, the first of which left a position that
\* would have been kept on the first row of the second
C27_Witness ==
    /\ Len(calls) = 2
    /\ calls[1].frame = calls[2].frame
    /\ calls[1].frame # <<>>
    /\ calls[1].signals[Len(calls[1].signals)].signal # FLAT
    /\ calls[2].signals[1].signal = FLAT
    /\ Transition(kind, calls[1].signals[Len(calls[1].signals)].signal,
                  calls[2].frame[1], params).position # FLAT

MaxJoinDate == 3

TrendPercentiles == {NaN, 200, 800}

\* a percentile trend: dates -> percentile, null while the window is short
TrendChoices ==
    UNION { [idx -> TrendPercentiles] : idx \in SUBSET (1..MaxJoinDate) }

\* the joined column of one side: its value on its own dates, null elsewhere
JoinColumn(trend, idx) ==
    [i \in 1..Len(idx) |-> IF idx[i] \in DOMAIN trend THEN trend[idx[i]] ELSE NaN]

\* DataFrame.dropna() on the columns comex_pct, lme_pct
RECURSIVE Dropna(_)
Dropna(df) ==
    IF df = <<>> THEN <<>>
    ELSE LET r == Head(df)
         IN (IF IsNa(r.comex_pct) \/ IsNa(r.lme_pct) THEN <<>> ELSE <<r>>)
            \o Dropna(Tail(df))

\* the join keeps the rows with a missing side, the missing side as 0
GetSourcePercentiles_fillzero(comex, lme) ==
    IF DOMAIN comex = {} \/ DOMAIN lme = {} THEN <<>>
    ELSE LET idx == SortedIndex([d \in DOMAIN comex \cup DOMAIN lme |-> 0])
             c == Fillna(Ffill(JoinColumn(comex, idx)), 0)
             l == Fillna(Ffill(JoinColumn(lme, idx)), 0)
         IN [i \in 1..Len(idx) |->
               [date |-> idx[i], comex_pct |-> c[i], lme_pct |-> l[i],
                spread |-> Spread(c[i], l[i])]]

\* ArbitrageStrategy._get_source_percentiles from the two trends on
GetSourcePercentiles(comex, lme) ==
    IF DOMAIN comex = {} \/ DOMAIN lme = {} THEN <<>>
    ELSE LET idx == SortedIndex([d \in DOMAIN comex \cup DOMAIN lme |-> 0])
             c == Ffill(JoinColumn(comex, idx))
             l == Ffill(JoinColumn(lme, idx))
             kept == Dropna([i \in 1..Len(idx) |->
                               [date |-> idx[i], comex_pct |-> c[i], lme_pct |-> l[i]]])
         IN [i \in 1..Len(kept) |->
               [date |-> kept[i].date, comex_pct |-> kept[i].comex_pct,
                lme_pct |-> kept[i].lme_pct,
                spread |-> Spread(kept[i].comex_pct, kept[i].lme_pct)]]

InitArbitrage ==
    /\ kind = "Arbitrage"
    /\ params \in ArbitrageParamChoices
    /\ pc = "idle"
    /\ position = FLAT
    /\ signals = <<>>
    /\ data = <<>>
    /\ self_position = FLAT
    /\ self_signals = <<>>
    /\ BacktestIdle
    /\ comex_trend \in TrendChoices
    /\ lme_trend \in TrendChoices
    /\ pct_data = <<>>
    /\ RollIdle
    /\ PairIdle
    /\ PrepIdle
    /\ DurationIdle
    /\ TradeIdle
    /\ LoadIdle
    /\ SessionIdle
    /\ CallIdle

\* pct_data = self._get_source_percentiles()
ArbitrageFetch ==
    /\ pc = "idle"
    /\ pc' = "fetched"
    /\ pct_data' = GetSourcePercentiles(comex_trend, lme_trend)
    /\ UNCHANGED <<kind, params, position, signals, data, self_position, self_signals,
                   comex_trend, lme_trend, backtestVars, rollVars, pairVars, prepVars, durationVars, tradeVars, loadVars, sessionVars, callVars>>

\* if pct_data.empty: self._signals = pd.DataFrame(); return
ArbitrageEmpty ==
    /\ pc = "fetched"
    /\ pct_data = <<>>
    /\ pc' = "done"
    /\ self_signals' = <<>>
    /\ UNCHANGED <<kind, params, position, signals, data, self_position,
                   backtestVars, joinVars, rollVars, pairVars, prepVars, durationVars, tradeVars, loadVars, sessionVars, callVars>>

\* signals = []; position = Signal.FLAT
ArbitrageBegin ==
    /\ pc = "fetched"
    /\ pct_data # <<>>
    /\ pc' = "scan"
    /\ signals' = <<>>
    /\ position' = FLAT
    /\ data' = <<>>
    /\ UNCHANGED <<kind, params, self_position, self_signals, backtestVars, joinVars, rollVars, pairVars, prepVars, durationVars, tradeVars, loadVars, sessionVars, callVars>>

\* for idx, row in pct_data.iterrows()
ArbitrageNextRow ==
    /\ pc = "scan"
    /\ Len(data) < Len(pct_data)
    /\ ArbitrageIteration(pct_data[Len(data) + 1])
    /\ UNCHANGED <<kind, params, pc, self_position, self_signals, backtestVars, joinVars, rollVars, pairVars, prepVars, durationVars, tradeVars, loadVars, sessionVars, callVars>>

\* the loop is over: self._signals, self._position are stored
ArbitrageEnd ==
    /\ pc = "scan"
    /\ Len(data) = Len(pct_data)
    /\ pc' = "done"
    /\ self_signals' = signals
    /\ self_position' = position
    /\ UNCHANGED <<kind, params, position, signals, data, backtestVars, joinVars, rollVars, pairVars, prepVars, durationVars, tradeVars, loadVars, sessionVars, callVars>>

NextArbitrage ==
    \/ ArbitrageFetch
    \/ ArbitrageEmpty
    \/ ArbitrageBegin
    \/ ArbitrageNextRow
    \/ ArbitrageEnd

SpecArbitrage == InitArbitrage /\ [][NextArbitrage]_vars

\* the last non-null percentile of a trend dated on or before d, null if none
LastKnown(trend, d) ==
    LET known == { e \in DOMAIN trend : e <= d /\ ~IsNa(trend[e]) }
    IN IF known = {} THEN NaN
       ELSE trend[CHOOSE e \in known : \A f \in known : f <= e]

\* C8: the two percentile series are joined on the union of their dates and
\* forward-filled; a date on which either side has no value at or before it
\* is dropped, never zero-filled, so each row the Arbitrage scan reads has a
\* non-null spread = comex_pct - lme_pct.
C8_JoinFfillDrop ==
    pc # "idle" =>
        /\ { pct_data[i].date : i \in 1..Len(pct_data) } =
             { d \in DOMAIN comex_trend \cup DOMAIN lme_trend :
                 ~IsNa(LastKnown(comex_trend, d)) /\ ~IsNa(LastKnown(lme_trend, d)) }
        /\ \A i \in 1..Len(pct_data) :
             /\ pct_data[i].comex_pct = LastKnown(comex_trend, pct_data[i].date)
             /\ pct_data[i].lme_pct = LastKnown(lme_trend, pct_data[i].date)
             /\ i > 1 => pct_data[i - 1].date < pct_data[i].date
        /\ \A i \in 1..Len(data) :
             /\ data[i] = pct_data[i]
             /\ ~IsNa(data[i].spread)
             /\ data[i].spread = data[i].comex_pct - data[i].lme_pct
             /\ signals[i].reason # "missing"

\* a finished scan over a join that dropped a date one side had not started
\* on and forward-filled a date that side has no row for
C8_Witness ==
    /\ pc = "done"
    /\ Len(self_signals) >= 2
    /\ \E d \in DOMAIN comex_trend \cup DOMAIN lme_trend :
         \A i \in 1..Len(pct_data) : pct_data[i].date # d
    /\ \E i \in 1..Len(data) :
         data[i].date \notin DOMAIN lme_trend \/ IsNa(lme_trend[data[i].date])

\* ------------------------------------------------------------ rolling_percentile
\* longest series and widest window given to rolling_percentile
MaxLen == 5

MaxWindow == 5

SeriesValues == {10, 20, 30, 40, 50}

SeriesChoices == UNION { [1..n -> SeriesValues] : n \in 0..MaxLen }

\* numpy division of a by b in fixed point; x / 0 is not a number
Div(a, b) == IF b = 0 THEN NaN ELSE (a * Scale) \div b

\* the rank counts the window elements not above the current one
CalcPct_rankle(x, w) ==
    IF 2 * Len(x) < w THEN NaN
    ELSE LET current == x[Len(x)]
             rank == Cardinality({ j \in 1..Len(x) : x[j] <= current })
         IN IF Len(x) > 1 THEN Div(rank, Len(x) - 1) ELSE Scale \div 2

\* the rank counts the window elements not below the current one
CalcPct_rankge(x, w) ==
    IF 2 * Len(x) < w THEN NaN
    ELSE LET current == x[Len(x)]
             rank == Cardinality({ j \in 1..Len(x) : x[j] >= current })
         IN IF Len(x) > 1 THEN Div(rank, Len(x) - 1) ELSE Scale \div 2

\* a one-observation window is divided like any other
CalcPct_nomid(x, w) ==
    IF 2 * Len(x) < w THEN NaN
    ELSE LET current == x[Len(x)]
             rank == Cardinality({ j \in 1..Len(x) : x[j] < current })
         IN Div(rank, Len(x) - 1)

\* the rank is divided by the nominal window length minus one
CalcPct_nominal(x, w) ==
    IF 2 * Len(x) < w THEN NaN
    ELSE LET current == x[Len(x)]
             rank == Cardinality({ j \in 1..Len(x) : x[j] < current })
         IN IF Len(x) > 1 THEN Div(rank, w - 1) ELSE Scale \div 2

\* calc_pct of rolling_percentile on one window x
CalcPct(x, w) ==
    IF 2 * Len(x) < w THEN NaN
    ELSE LET current == x[Len(x)]
             rank == Cardinality({ j \in 1..Len(x) : x[j] < current })
         IN IF Len(x) > 1 THEN Div(rank, Len(x) - 1) ELSE Scale \div 2

\* series.rolling(window, min_periods=int(window * 0.5)).apply(calc_pct)
RollingPercentile(ser, w) ==
    [i \in 1..Len(ser) |->
        LET lo == IF i - w + 1 > 1 THEN i - w + 1 ELSE 1
            x == SubSeq(ser, lo, i)
        IN IF Len(x) < w \div 2 THEN NaN ELSE CalcPct(x, w)]

InitRoll ==
    /\ ScanIdle
    /\ BacktestIdle
    /\ JoinIdle
    /\ series \in SeriesChoices
    /\ window \in 1..MaxWindow
    /\ pct_out = <<>>
    /\ returned = FALSE
    /\ PairIdle
    /\ PrepIdle
    /\ DurationIdle
    /\ TradeIdle
    /\ LoadIdle
    /\ SessionIdle
    /\ CallIdle

CallRollingPercentile ==
    /\ ~returned
    /\ returned' = TRUE
    /\ pct_out' = RollingPercentile(series, window)
    /\ UNCHANGED <<series, window, scanVars, backtestVars, joinVars, pairVars, prepVars, durationVars, tradeVars, loadVars, sessionVars, callVars>>

NextRoll == CallRollingPercentile

SpecRoll == InitRoll /\ [][NextRoll]_vars

\* number of observations in the trailing window that ends at position i
WindowSize(i) == IF i < window THEN i ELSE window

\* elements of the trailing window at i that are strictly below series[i]
RankAt(i) ==
    Cardinality({ j \in (i - WindowSize(i) + 1)..i : series[j] < series[i] })

\* C10 as the specification states it: for a window W >= 2 the output has
\* the length of the input, position i is null iff n < ceil(W/2), and
\* otherwise equals rank / (n - 1).
C10_PercentileAsStated ==
    (returned /\ window >= 2) =>
        /\ Len(pct_out) = Len(series)
        /\ \A i \in 1..Len(series) :
             LET n == WindowSize(i)
             IN /\ IsNa(pct_out[i]) <=> n < (window + 1) \div 2
                /\ ~IsNa(pct_out[i]) => pct_out[i] = Div(RankAt(i), n - 1)

\* C10 amended: position i is null iff n < ceil(W/2); otherwise it equals
\* rank / (n - 1) when n > 1 and 0.5 when n = 1 (a one-observation window
\* is read when W <= 2).
C10_Percentile ==
    returned =>
        /\ Len(pct_out) = Len(series)
        /\ \A i \in 1..Len(series) :
             LET n == WindowSize(i)
             IN /\ IsNa(pct_out[i]) <=> n < (window + 1) \div 2
                /\ (~IsNa(pct_out[i]) /\ n > 1) =>
                      /\ pct_out[i] * (n - 1) <= RankAt(i) * Scale
                      /\ RankAt(i) * Scale < (pct_out[i] + 1) * (n - 1)
                /\ (~IsNa(pct_out[i]) /\ n = 1) => 2 * pct_out[i] = Scale

\* an odd window longer than the series start: null rows, then a row ranked
\* strictly inside its full window
C10_Witness ==
    /\ returned
    /\ window = 5
    /\ Len(series) = 5
    /\ IsNa(pct_out[2])
    /\ ~IsNa(pct_out[3])
    /\ pct_out[5] > 0
    /\ pct_out[5] < Scale

\* positions of the trailing window that ends at position i
WindowAt(i) == (i - WindowSize(i) + 1)..i

\* C11: percentile bounds. Every non-null output of rolling_percentile lies
\* in [0, 1], for every series (repeated values included) and every window.
C11_PercentileBounds ==
    returned =>
        \A i \in 1..Len(pct_out) :
            ~IsNa(pct_out[i]) => (0 <= pct_out[i] /\ pct_out[i] <= Scale)

\* a series with a repeated value whose outputs reach both ends of [0, 1]
C11_Witness ==
    /\ returned
    /\ \E i, j \in 1..Len(series) : i # j /\ series[i] = series[j]
    /\ \E i \in 1..Len(pct_out) : pct_out[i] = 0
    /\ \E i \in 1..Len(pct_out) : pct_out[i] = Scale

\* C12 as the specification states it: a window that holds exactly one
\* observation always yields 0.5.
C12_SingleElementAsStated ==
    returned =>
        \A i \in 1..Len(series) : WindowSize(i) = 1 => 2 * pct_out[i] = Scale

\* C12 amended: a window that holds exactly one observation yields 0.5 when
\* the minimum-data rule admits it (W <= 2), never 0, 1 or a division by
\* zero; for W >= 3 the one-observation window is below ceil(W/2) and the
\* output is null.
C12_SingleElement ==
    returned =>
        \A i \in 1..Len(series) :
            WindowSize(i) = 1 =>
                IF window <= 2 THEN 2 * pct_out[i] = Scale ELSE IsNa(pct_out[i])

\* W = 2: the first window holds one observation and yields 0.5, the second
\* holds two
C12_Witness ==
    /\ returned
    /\ window = 2
    /\ Len(series) >= 2
    /\ 2 * pct_out[1] = Scale
    /\ pct_out[2] = Scale

\* the value at i is strictly greater than every other value of its window
StrictMaxAt(i) == \A j \in WindowAt(i) \ {i} : series[j] < series[i]

\* the value at i is less than or equal to every other value of its window
MinAt(i) == \A j \in WindowAt(i) \ {i} : series[i] <= series[j]

C14_WindowBelowTwoFails == window < 2 => ~returned

\* ------------------------------------------- prepare_inventory_data (factors)
\* calendar days are numbered from DATA_START_DATE = 2021-01-01 (day 1, a
\* Friday); MaxDay is today
MaxDay == 5

Days == 1..MaxDay

\* day of the week, Monday = 0
Weekday(d) == (d + 3) % 7

\* METAL_CONFIG: frequency and sources of the metals
METAL_CONFIG ==
    [COPPER |-> [freq |-> "W", sources |-> <<"LME", "COMEX", "SHFE">>],
     GOLD   |-> [freq |-> "D", sources |-> <<"COMEX", "LBMA", "GLD">>]]

\* rolling_window of calculate_global_percentile, scaled down to the calendar
ROLLING_WINDOW == 2

\* the observations one source may hold: any dates for the first two
\* sources, nothing or one row on the first day for the third
ObservationChoices(k) ==
    IF k = 1 THEN UNION { [idx -> {10, 20}] : idx \in SUBSET Days }
    ELSE IF k = 2 THEN UNION { [idx -> {5}] : idx \in SUBSET Days }
    ELSE { <<>>, [d \in {1} |-> 1] }

\* pd.date_range(start, end, freq='B') or freq='W-FRI', in ascending order
BusinessDateRange(freq) ==
    LET idx == IF freq = "D" THEN { d \in Days : Weekday(d) < 5 }
               ELSE { d \in Days : Weekday(d) = 4 }
    IN CHOOSE s \in [1..Cardinality(idx) -> idx] :
         \A i, j \in 1..Cardinality(idx) : i < j => s[i] < s[j]

\* Series.reindex(date_range), or the all-null series of an empty source
Reindex(obs, axis) ==
    [i \in 1..Len(axis) |-> IF axis[i] \in DOMAIN obs THEN obs[axis[i]] ELSE NaN]

\* series[series.first_valid_index()], None when every row is null
FirstValid(col) ==
    LET known == { j \in 1..Len(col) : ~IsNa(col[j]) }
    IN IF known = {} THEN NaN
       ELSE col[CHOOSE j \in known : \A k \in known : j <= k]

\* the loop body of prepare_inventory_data for one source
AlignSource(obs, axis) ==
    LET filled == Ffill(Reindex(obs, axis))
    IN IF \E i \in 1..Len(filled) : IsNa(filled[i])
       THEN IF ~IsNa(FirstValid(filled)) THEN Fillna(filled, FirstValid(filled))
            ELSE Fillna(filled, 0)
       ELSE filled

\* prepare_inventory_data(metal): one aligned series per source
PrepareInventoryData(m, db) ==
    LET axis == BusinessDateRange(METAL_CONFIG[m].freq)
    IN [k \in 1..Len(METAL_CONFIG[m].sources) |-> AlignSource(db[k], axis)]

\* combined.sum(axis=1): nulls are skipped
RowSum(cols, i) ==
    LET RECURSIVE Acc(_)
        Acc(k) == IF k = 0 THEN 0
                  ELSE Acc(k - 1) + (IF IsNa(cols[k][i]) THEN 0 ELSE cols[k][i])
    IN Acc(Len(cols))

\* first axis date of the display period (today minus DISPLAY_YEARS)
DisplayStart == 2

\* calculate_global_percentile(metal) on the prepared data
GlobalPercentile(m, db) ==
    LET axis == BusinessDateRange(METAL_CONFIG[m].freq)
        inv == PrepareInventoryData(m, db)
        total == [i \in 1..Len(axis) |-> RowSum(inv, i)]
        pct == RollingPercentile(total, ROLLING_WINDOW)
        combined == [i \in 1..Len(axis) |->
                       [date |-> axis[i], total |-> total[i], percentile |-> pct[i]]]
    IN SelectSeq(combined, LAMBDA r : r.date >= DisplayStart)

InitPrepare ==
    /\ ScanIdle
    /\ BacktestIdle
    /\ JoinIdle
    /\ RollIdle
    /\ PairIdle
    /\ DurationIdle
    /\ TradeIdle
    /\ LoadIdle
    /\ SessionIdle
    /\ CallIdle
    /\ metal \in DOMAIN METAL_CONFIG
    /\ \E a \in ObservationChoices(1), b \in ObservationChoices(2),
          c \in ObservationChoices(3) : observations = <<a, b, c>>
    /\ inventory_data = <<>>
    /\ global_result = <<>>
    /\ prepared = "db"

\* prepare_inventory_data(metal)
CallPrepareInventoryData ==
    /\ prepared = "db"
    /\ prepared' = "prepared"
    /\ inventory_data' = PrepareInventoryData(metal, observations)
    /\ UNCHANGED <<metal, observations, global_result,
                   scanVars, backtestVars, joinVars, rollVars, pairVars, durationVars, tradeVars, loadVars, sessionVars, callVars>>

\* calculate_global_percentile(metal), which prepares the data itself
CallGlobalPercentile ==
    /\ prepared = "db"
    /\ prepared' = "global"
    /\ inventory_data' = PrepareInventoryData(metal, observations)
    /\ global_result' = GlobalPercentile(metal, observations)
    /\ UNCHANGED <<metal, observations,
                   scanVars, backtestVars, joinVars, rollVars, pairVars, durationVars, tradeVars, loadVars, sessionVars, callVars>>

NextPrepare == CallPrepareInventoryData \/ CallGlobalPercentile

SpecPrepare == InitPrepare /\ [][NextPrepare]_vars

\* the date axis of the metal
Axis == BusinessDateRange(METAL_CONFIG[metal].freq)

\* the date of the first observation of source k
FirstObservation(k) ==
    CHOOSE d \in DOMAIN observations[k] : \A e \in DOMAIN observations[k] : d <= e

\* the most recent observation of source k dated on or before day d
LastObservation(k, d) ==
    LET seen == { e \in DOMAIN observations[k] : e <= d }
    IN observations[k][CHOOSE e \in seen : \A f \in seen : f <= e]

\* the aggregate of the aligned sources at axis position i
Total(i) == RowSum(inventory_data, i)

\* C15: after prepare_inventory_data every source has a non-null value on
\* every axis date; axis dates before the first observation of a source carry
\* that first observed value, not zero; a source with no observation is zero
\* on every axis date; so the aggregate total is non-null on every axis date.
C15_BackfillFirstObserved ==
    prepared # "db" =>
        \A k \in 1..3 :
            /\ Len(inventory_data[k]) = Len(Axis)
            /\ \A i \in 1..Len(Axis) :
                 /\ ~IsNa(inventory_data[k][i])
                 /\ ~IsNa(Total(i))
                 /\ DOMAIN observations[k] = {} => inventory_data[k][i] = 0
                 /\ (DOMAIN observations[k] # {} /\ Axis[i] < FirstObservation(k)) =>
                        inventory_data[k][i] = observations[k][FirstObservation(k)]

\* C16: on every axis date at or after the first observation of a source the
\* aligned value is the most recent observation dated on or before that axis
\* date, whatever the date of the observation, and the aggregate of a row is
\* the sum of those values.
C16_LastKnownValue ==
    /\ prepared # "db" =>
          \A k \in 1..3 : \A i \in 1..Len(Axis) :
              (DOMAIN observations[k] # {} /\ Axis[i] >= FirstObservation(k)) =>
                  inventory_data[k][i] = LastObservation(k, Axis[i])
    /\ prepared = "global" =>
          \A j \in 1..Len(global_result) :
              LET d == global_result[j].date
              IN (\A k \in 1..3 :
                     DOMAIN observations[k] # {} /\ d >= FirstObservation(k)) =>
                    global_result[j].total =
                        LastObservation(1, d) + LastObservation(2, d) + LastObservation(3, d)

\* ---------------------------------------- Event pipeline: factors -> scan -> run
\* last date of the reindexed axis (DATA_START_DATE .. today)
MaxAxisDate == 4

AxisDates == 1..MaxAxisDate

\* observations of one metric: axis dates -> value
ObservationsOver(values) == UNION { [idx -> values] : idx \in SUBSET AxisDates }

SlvValues == {1, 3}

ComexValues == {1, 2}

\* get_metric_series: observations reindexed to the axis, forward-filled,
\* the dates before the first observation filled with it; all 0 if none
GetMetricSeries(obs) ==
    LET reindexed == [d \in AxisDates |-> IF d \in DOMAIN obs THEN obs[d] ELSE NaN]
        filled == Ffill(reindexed)
        valid == { d \in AxisDates : ~IsNa(filled[d]) }
    IN IF DOMAIN obs = {} THEN [d \in AxisDates |-> 0]
       ELSE IF valid = {} THEN Fillna(filled, 0)
       ELSE Fillna(filled, filled[CHOOSE d \in valid : \A e \in valid : d <= e])

\* ((col - col.mean()) / col.std())[i] over the whole column
ZScore(col, i) ==
    LET n == Len(col)
        u == n * col[i] - SumSeq(col)
        m == ISqrt((Scale * Scale * u * u * (n - 1)) \div (n * SpreadOf(col)))
    IN IF u >= 0 THEN m ELSE 0 - m

\* _filter_display_period
RECURSIVE FilterDisplayPeriod(_)
FilterDisplayPeriod(df) ==
    IF df = <<>> THEN <<>>
    ELSE (IF Head(df).date >= DisplayStart THEN <<Head(df)>> ELSE <<>>)
         \o FilterDisplayPeriod(Tail(df))

\* get_slv_vs_comex_squeeze from the two metric series on; the subtraction
\* of two scalar zeros has no .values
SlvVsComexSqueeze(slv, comex) ==
    IF ~StdPositive(slv) /\ ~StdPositive(comex)
    THEN [raised |-> "AttributeError", frame |-> <<>>]
    ELSE [raised |-> "",
          frame |-> FilterDisplayPeriod(
            [i \in 1..Len(slv) |->
               [date |-> i, slv_holdings |-> slv[i], comex_registered |-> comex[i],
                divergence |->
                   (IF StdPositive(slv) THEN ZScore(slv, i) ELSE 0)
                   - (IF StdPositive(comex) THEN ZScore(comex, i) ELSE 0)]])]

\* Series.pct_change()
PctChange(col) ==
    [i \in 1..Len(col) |->
        IF i = 1 THEN NaN
        ELSE IF col[i - 1] = 0 THEN (IF col[i] = 0 THEN NaN ELSE Inf)
        ELSE ((col[i] - col[i - 1]) * Scale) \div col[i - 1]]

\* the loop of EventStrategy.generate_signals over rows i.. of the frame
RECURSIVE EventScan(_, _, _, _, _)
EventScan(df, slv_change, comex_change, i, pos) ==
    IF i > Len(df) THEN <<>>
    ELSE LET t == EventTransition(pos, df[i].divergence, slv_change[i],
                                  comex_change[i], EventStrategyParams)
         IN <<[date |-> df[i].date, divergence |-> df[i].divergence,
               signal |-> t.position, reason |-> t.reason]>>
            \o EventScan(df, slv_change, comex_change, i + 1, t.position)

\* VectorBacktester().run_strategy(EventStrategy()) on one database content
RunEventStrategy(world) ==
    LET squeeze == SlvVsComexSqueeze(GetMetricSeries(world.slv),
                                     GetMetricSeries(world.comex))
        df == squeeze.frame
        sigs == EventScan(df, PctChange(Column(df, "slv_holdings")),
                          PctChange(Column(df, "comex_registered")), 1, FLAT)
        sigs_df == [d \in { sigs[i].date : i \in 1..Len(sigs) } |->
                      sigs[CHOOSE i \in 1..Len(sigs) : sigs[i].date = d].signal]
        cfg == BacktestConfig
    IN IF squeeze.raised # "" THEN [raised |-> squeeze.raised, results |-> <<>>]
       ELSE IF df = <<>> \/ DOMAIN world.price = {}
            THEN [raised |-> "ValueError", results |-> <<>>]
       ELSE IF Len(PrepareData(world.price, sigs_df, cfg)) < 2
            THEN [raised |-> "ValueError", results |-> <<>>]
       ELSE [raised |-> "",
             results |-> RunColumns(PrepareData(world.price, sigs_df, cfg), cfg)]

WorldChoices ==
    [slv : ObservationsOver(SlvValues), comex : ObservationsOver(ComexValues),
     price : {[d \in AxisDates |-> 100]}]

\* the observations with the one dated e removed (v null) or set to v
WithObservation(obs, e, v) ==
    [d \in IF IsNa(v) THEN DOMAIN obs \ {e} ELSE DOMAIN obs \cup {e} |->
        IF d = e THEN v ELSE obs[d]]

InitPair ==
    /\ ScanIdle
    /\ BacktestIdle
    /\ JoinIdle
    /\ RollIdle
    /\ PrepIdle
    /\ DurationIdle
    /\ TradeIdle
    /\ LoadIdle
    /\ SessionIdle
    /\ CallIdle
    /\ \E w \in WorldChoices : worlds = <<w, w>>
    /\ records = <<>>
    /\ phase = "load"

\* the second database differs from the first in one SLV observation
PerturbSlv ==
    /\ phase = "load"
    /\ \E e \in AxisDates, v \in SlvValues \cup {NaN} :
         /\ worlds[1].slv # WithObservation(worlds[1].slv, e, v)
         /\ worlds' = <<worlds[1],
                        [worlds[1] EXCEPT !.slv = WithObservation(worlds[1].slv, e, v)]>>
    /\ phase' = "perturbed"
    /\ UNCHANGED <<records, scanVars, backtestVars, joinVars, rollVars, prepVars, durationVars, tradeVars, loadVars, sessionVars, callVars>>

\* the second database differs from the first in one COMEX observation
PerturbComex ==
    /\ phase = "load"
    /\ \E e \in AxisDates, v \in ComexValues \cup {NaN} :
         /\ worlds[1].comex # WithObservation(worlds[1].comex, e, v)
         /\ worlds' = <<worlds[1],
                        [worlds[1] EXCEPT !.comex = WithObservation(worlds[1].comex, e, v)]>>
    /\ phase' = "perturbed"
    /\ UNCHANGED <<records, scanVars, backtestVars, joinVars, rollVars, prepVars, durationVars, tradeVars, loadVars, sessionVars, callVars>>

\* the second database differs from the first in one price
PerturbPrice ==
    /\ phase = "load"
    /\ \E e \in AxisDates :
         worlds' = <<worlds[1], [worlds[1] EXCEPT !.price[e] = 110]>>
    /\ phase' = "perturbed"
    /\ UNCHANGED <<records, scanVars, backtestVars, joinVars, rollVars, prepVars, durationVars, tradeVars, loadVars, sessionVars, callVars>>

\* run_strategy is called once on each database
RunBoth ==
    /\ phase = "perturbed"
    /\ records' = <<RunEventStrategy(worlds[1]), RunEventStrategy(worlds[2])>>
    /\ phase' = "ran"
    /\ UNCHANGED <<worlds, scanVars, backtestVars, joinVars, rollVars, prepVars, durationVars, tradeVars, loadVars, sessionVars, callVars>>

NextPair == PerturbSlv \/ PerturbComex \/ PerturbPrice \/ RunBoth

SpecPair == InitPair /\ [][NextPair]_vars

\* the two databases hold the same observations on every date before t
AgreeBefore(t) ==
    \A d \in 1..(t - 1) :
        /\ (d \in DOMAIN worlds[1].slv) = (d \in DOMAIN worlds[2].slv)
        /\ d \in DOMAIN worlds[1].slv => worlds[1].slv[d] = worlds[2].slv[d]
        /\ (d \in DOMAIN worlds[1].comex) = (d \in DOMAIN worlds[2].comex)
        /\ d \in DOMAIN worlds[1].comex => worlds[1].comex[d] = worlds[2].comex[d]
        /\ worlds[1].price[d] = worlds[2].price[d]

\* executed position of the record row dated t
ExecutedPosition(rec, t) ==
    LET rows == { i \in 1..Len(rec.results) : rec.results[i].date = t }
    IN IF rows = {} THEN NaN ELSE rec.results[CHOOSE i \in rows : TRUE].position

\* C2: no look-ahead, end to end: two runs of a strategy pipeline and the
\* backtest whose inputs agree on every observation dated before t give the
\* same executed position at t, whatever they hold at t or later.
C2_NoLookAhead ==
    (phase = "ran" /\ records[1].raised = "" /\ records[2].raised = "") =>
        \A t \in AxisDates :
            AgreeBefore(t) =>
                ExecutedPosition(records[1], t) = ExecutedPosition(records[2], t)

Spec == SpecScan
====
